---- MODULE Spec2Model ----
(***************************************************************************)
(* Verification model of the Eclipso in-place redaction core.              *)
(*                                                                         *)
(* Part 1 (SpecOle, SpecBigFat): the OLE/CFBF sector-chain navigator       *)
(*   overwrite_bigfat / big_sector_from_minioffset /                       *)
(*   overwrite_minifat_chain (core/ole_helper.py and its copies under      *)
(*   server/), driven by the CLI orchestrator (main.py) and by             *)
(*   redact_ole_bin_preserve_size (server/xml/ole_redactor.py).            *)
(* Part 2 (SpecMask): the same-length mask primitives of                   *)
(*   core/encoding_replace.py and modules/chart_replacer.py.               *)
(* Part 3 (SpecHwp): hwp_module.redact.                                    *)
(* Part 4 (SpecBiff): CONTINUE coalescing and write-back of                *)
(*   server/modules/doc_chart.py.                                          *)
(*                                                                         *)
(* The parts share one list of variables; while one part runs, the         *)
(* variables of the others rest at their idle values.                      *)
(*                                                                         *)
(* Byte buffers are sequences of small integers; Python's 0-based offset k *)
(* is index k+1 of the sequence.                                           *)
(***************************************************************************)
EXTENDS Integers, Sequences, FiniteSets, TLC

\* ------------------------------------------------------------------ bounds
\* ole.sector_size of the modelled containers
SectorSize == 2
\* ole.mini_sector_size of the modelled containers
MiniSectorSize == 1
\* most sectors after the header sector in a container
MaxSectors == 2
\* longest new_raw handed to an overwrite by the CLI
MaxRaw == 4
\* most entries of ole.minifat
MaxMiniFat == 2
\* ole.minisector_cutoff of the modelled containers
MiniCutoff == 3
\* most bytes in front of an embedded CFBF signature
MaxPrefix == 1

\* --------------------------------------------------------------- constants
\* ENDOFCHAIN is 0xFFFFFFFE in the source; TLC integers are 32-bit signed, so
\* the sentinel is scaled to 0xFFFE: like the original it is larger than every
\* sector index, table length and file offset that occurs.
ENDOFCHAIN == 65534

\* ----------------------------------------------------------------- helpers
Min(a, b) == IF a <= b THEN a ELSE b
Max(a, b) == IF a >= b THEN a ELSE b

\* b[lo:hi] for 0 <= lo, 0 <= hi (a Python slice read, clamped to len(b))
Slice(b, lo, hi) ==
  LET l == Min(lo, Len(b))
      h == Max(l, Min(hi, Len(b)))
  IN  SubSeq(b, l + 1, h)

\* b[lo:hi] = v on a bytearray: the clamped slice is replaced by v, so the
\* buffer grows when the slice reaches past its end
SliceAssign(b, lo, hi, v) ==
  LET l == Min(lo, Len(b))
      h == Max(l, Min(hi, Len(b)))
  IN  SubSeq(b, 1, l) \o v \o SubSeq(b, h + 1, Len(b))

\* sequences over S of length 0..n
SeqsUpTo(S, n) == UNION {[1..k -> S] : k \in 0..n}

\* the bytes of an unmodified file: position-dependent, never a mask byte
OrigByte(i) == 100 + i
OrigBytes(n) == [i \in 1..n |-> OrigByte(i)]
\* the bytes of a replacement payload built by the CLI (position-dependent)
NewBytes(n) == [i \in 1..n |-> i]

VARIABLES
  impl,        \* which copy of the navigator runs: "core" (CLI), "xml"
               \* (server/xml) or "modules" (server/modules)
  stream_kind, \* CLI: "body" (BodyText section) or "chart" (BinData stream)
  container,   \* the mutable bytearray the overwrites go to
  fat,         \* ole.fat
  minifat,     \* ole.minifat
  root,        \* Root Entry: [present, isectStart]
  bin_bytes,   \* input of redact_ole_bin_preserve_size (the file, for the CLI)
  de,          \* directory entry used for the stream: [start, size]
  de_attrs,    \* whether the object ole._find returns exposes isectStart
  ole_fat_global, \* the module-level FAT read by _read_mini_chain_bytes
  pc,          \* position of the running call
  s,           \* current (mini) sector index of the walk
  pos,         \* bytes of new_raw consumed so far
  new_raw,     \* the payload of the running overwrite
  w,           \* hops completed by the running overwrite
  before,      \* the container when the overwrite was called
  visited,     \* sector indices a chunk was written for, in order
  tbl,         \* table of the running walk: "none", "FAT" or "MiniFAT"
  start_sector, \* the start sector the running overwrite was called with
  result       \* what redact_ole_bin_preserve_size returned

\* fixed once the file is opened
oleconf == <<impl, stream_kind, fat, minifat, root, bin_bytes, de, de_attrs>>
\* the running walk
olewalk == <<s, pos, new_raw, w, before, visited, tbl, start_sector>>

olevars == <<oleconf, olewalk, container, ole_fat_global, pc, result>>

\* Part 2 (SpecMask): the same-length mask primitives
VARIABLES
  m_data,      \* the bytes handed to the primitive
  m_old,       \* the secret: a string, as its sequence of code points
  m_pc,        \* "start", "done" (returned), "raised", "hang", "rescanned"
  m_fn,        \* the primitive that ran
  m_out,       \* the bytes it returned
  m_hits,      \* the hit count it returned
  m_out2,      \* bytes returned by the second call on m_out
  m_hits2      \* hit count returned by the second call on m_out

maskvars == <<m_data, m_old, m_pc, m_fn, m_out, m_hits, m_out2, m_hits2>>

\* Part 3 (SpecHwp): hwp_module.redact
VARIABLES
  file_bytes,  \* the uploaded HWP file: an OLE container
  exists,      \* ole.exists("BodyText/Section0")
  h_raw,       \* ole.openstream("BodyText/Section0").read()
  h_pc,        \* "start", "returned"
  h_out        \* the bytes redact returned

hwpvars == <<file_bytes, exists, h_raw, h_pc, h_out>>

\* Part 4 (SpecBiff): CONTINUE coalescing of doc_chart
VARIABLES
  biff,        \* the BIFF stream as read
  wb,          \* bytearray(biff), the working buffer
  b_off,       \* offset of the record handed to the collector
  b_pc,        \* "start", "collected", "written"
  chunks,      \* the payload chunks collected
  segs,        \* their (payload_off, payload_end) pairs
  b_by         \* the collector that ran

biffvars == <<biff, wb, b_off, b_pc, chunks, segs, b_by>>

\* doc_chart.scan_and_redact_payload on one record of a workbook buffer
VARIABLES
  xl_wb,       \* the workbook buffer before the call
  xl_out,      \* the workbook buffer after the call
  xl_parsed,   \* (text_lo, text_hi) of every XLUCS the scan parsed
  xl_red,      \* the count the call returned
  xl_pc

xlvars == <<xl_wb, xl_out, xl_parsed, xl_red, xl_pc>>

\* modules/sst_replacer.redact_in_sst
VARIABLES
  sst_wb,      \* the workbook buffer passed in
  sst_old,     \* the literal to redact
  sst_out,     \* the buffer returned
  sst_hits,    \* (start, end) workbook offsets of the raw text of each match
  sst_pc       \* "start", "returned" or "raised"

sstvars == <<sst_wb, sst_old, sst_out, sst_hits, sst_pc>>

\* core/record_parser.parse_records, one loop iteration per step
VARIABLES
  rec_raw,     \* the buffer passed in
  rec_off,     \* off
  rec_recs,    \* the records appended so far, with the offsets they came from
  rec_pc       \* "loop" inside the while loop, "returned" after it

recvars == <<rec_raw, rec_off, rec_recs, rec_pc>>

\* server/modules/doc_module: extract_text, replace_text, redact
VARIABLES
  doc_file,    \* file_bytes, as the streams olefile finds in it
  doc_targets, \* the targets handed to replace_text
  doc_fn,      \* the function called
  doc_pc,      \* "start", "returned" or "raised"
  doc_text,    \* full_text returned by extract_text
  doc_out      \* the file returned by replace_text / redact

docvars == <<doc_file, doc_targets, doc_fn, doc_pc, doc_text, doc_out>>

\* two interleaved calls of _bruteforce_locate_start (server/xml), each on
\* its own container; the module global ole_fat_global is declared above
VARIABLES
  cc_doc,      \* per call: the container and the tables olefile read from it
  cc_pc,       \* per call: "call", "mini", "done" or "hang"
  cc_cand,     \* per call: the candidate start the MiniFAT scan is at
  cc_result    \* per call: the (start, kind) returned

concvars == <<cc_doc, cc_pc, cc_cand, cc_result>>

\* the generator iter_biff_records: its buffer, its offset, the records it has
\* yielded so far and where it stands
VARIABLES
  it_data,
  it_off,
  it_out,
  it_pc

itervars == <<it_data, it_off, it_out, it_pc>>

\* the scan loop of scan_and_redact_payload (doc_chart.py), one step at a
\* time
VARIABLES
  u_wb,        \* the workbook buffer
  u_chunks,    \* chunks, masked in place
  u_segs,      \* segs
  u_pos,       \* pos
  u_at,        \* pos at the last call of try_parse_chunks, -1 before it
  u_x,         \* the XLUCS object after the last call of try_parse_chunks
  u_red,       \* red
  u_pc         \* "start", "loop", "tried" or "returned"

ucsvars == <<u_wb, u_chunks, u_segs, u_pos, u_at, u_x, u_red, u_pc>>

\* redact_emf_stream (doc_chart.py)
VARIABLES
  emf_in,      \* emf_bytes
  emf_out,     \* the bytes returned
  emf_masks,   \* the ranges overwritten, each with the record it was found in
  emf_pc       \* "start", "returned" or "raised"

emfvars == <<emf_in, emf_out, emf_masks, emf_pc>>

\* process_body_stream (body_replacer.py)
VARIABLES
  pb_raw,         \* raw
  pb_old,         \* old
  pb_compressed,  \* compressed
  pb_new_dec,     \* new_dec
  pb_out,         \* the bytes returned
  pb_hits,        \* hits
  pb_pc           \* "start", "returned" or "raised"

bodyvars == <<pb_raw, pb_old, pb_compressed, pb_new_dec, pb_out, pb_hits, pb_pc>>

\* xls_module: SSTParser.parse and redact
VARIABLES
  xs_wb,       \* the Workbook stream
  xs_fn,       \* the function called: "parse" or "redact"
  xs_list,     \* the XLUCSString list SSTParser.parse returned
  xs_out,      \* the file redact returned
  xs_pc        \* "start", "returned" or "raised"

xlsvars == <<xs_wb, xs_fn, xs_list, xs_out, xs_pc>>

\* find_direntry_tail as the CLI orchestrators call it (core/utils.py)
VARIABLES
  fd_direntries, \* ole.direntries, by directory id; None for an unused id
  fd_name,       \* the stream path the orchestrator is processing
  fd_entry,      \* the entry find_direntry_tail returned
  fd_pc          \* "start" or "returned"

dirvars == <<fd_direntries, fd_name, fd_entry, fd_pc>>

\* process_bindata (chart_replacer.py)
VARIABLES
  pbd_raw,     \* raw
  pbd_ole,     \* what olefile finds in raw: the offset of the embedded
               \* compound file and the sector chain of each of its streams
  pbd_old,     \* chart_old
  pbd_out,     \* the bytes returned
  pbd_hits,    \* the hits returned
  pbd_pc       \* "start" or "returned"

binvars == <<pbd_raw, pbd_ole, pbd_old, pbd_out, pbd_hits, pbd_pc>>

\* the parts of the first four specifications, and the parts after them
firstvars == <<olevars, maskvars, hwpvars, biffvars>>
latervars == <<xlvars, sstvars, recvars, docvars, concvars, itervars, ucsvars, emfvars, bodyvars, xlsvars, dirvars, binvars>>

\* what an action of one of the later parts leaves alone
notXl == <<firstvars, sstvars, recvars, docvars, concvars, itervars, ucsvars, emfvars, bodyvars, xlsvars, dirvars, binvars>>
notSst == <<firstvars, xlvars, recvars, docvars, concvars, itervars, ucsvars, emfvars, bodyvars, xlsvars, dirvars, binvars>>
notRec == <<firstvars, xlvars, sstvars, docvars, concvars, itervars, ucsvars, emfvars, bodyvars, xlsvars, dirvars, binvars>>
notDoc == <<firstvars, xlvars, sstvars, recvars, concvars, itervars, ucsvars, emfvars, bodyvars, xlsvars, dirvars, binvars>>
notConc == <<oleconf, olewalk, container, pc, result, maskvars, hwpvars, biffvars, xlvars, sstvars, recvars, docvars, itervars, ucsvars, emfvars, bodyvars, xlsvars, dirvars, binvars>>
notIter == <<firstvars, xlvars, sstvars, recvars, docvars, concvars, ucsvars, emfvars, bodyvars, xlsvars, dirvars, binvars>>
notUcs == <<firstvars, xlvars, sstvars, recvars, docvars, concvars, itervars, emfvars, bodyvars, xlsvars, dirvars, binvars>>
notEmf == <<firstvars, xlvars, sstvars, recvars, docvars, concvars, itervars, ucsvars, bodyvars, xlsvars, dirvars, binvars>>
notBody == <<firstvars, xlvars, sstvars, recvars, docvars, concvars, itervars, ucsvars, emfvars, xlsvars, dirvars, binvars>>
notXls == <<firstvars, xlvars, sstvars, recvars, docvars, concvars, itervars, ucsvars, emfvars, bodyvars, dirvars, binvars>>
notDir == <<firstvars, xlvars, sstvars, recvars, docvars, concvars, itervars, ucsvars, emfvars, bodyvars, xlsvars, binvars>>
notBin == <<firstvars, xlvars, sstvars, recvars, docvars, concvars, itervars, ucsvars, emfvars, bodyvars, xlsvars, dirvars>>

vars == <<firstvars, latervars>>

\* the other parts are at rest while one part runs
OleIdle ==
  /\ impl = "none" /\ stream_kind = "none" /\ container = <<>> /\ fat = <<>>
  /\ minifat = <<>> /\ root = [present |-> FALSE, isectStart |-> 0]
  /\ bin_bytes = <<>> /\ de = [start |-> 0, size |-> 0] /\ de_attrs = FALSE
  /\ ole_fat_global = <<>> /\ pc = "idle" /\ s = 0 /\ pos = 0
  /\ new_raw = <<>> /\ w = 0 /\ before = <<>> /\ visited = <<>>
  /\ tbl = "none" /\ start_sector = 0 /\ result = <<>>

MaskIdle ==
  /\ m_data = <<>> /\ m_old = <<>> /\ m_pc = "idle" /\ m_fn = "none"
  /\ m_out = <<>> /\ m_hits = 0 /\ m_out2 = <<>> /\ m_hits2 = 0

HwpIdle ==
  /\ file_bytes = <<>> /\ exists = FALSE /\ h_raw = <<>> /\ h_pc = "idle"
  /\ h_out = <<>>

BiffIdle ==
  /\ biff = <<>> /\ wb = <<>> /\ b_off = 0 /\ b_pc = "idle" /\ chunks = <<>>
  /\ segs = <<>> /\ b_by = "none"

XlIdle ==
  /\ xl_wb = <<>> /\ xl_out = <<>> /\ xl_parsed = <<>> /\ xl_red = 0
  /\ xl_pc = "idle"

SstIdle ==
  /\ sst_wb = <<>> /\ sst_old = <<>> /\ sst_out = <<>> /\ sst_hits = <<>>
  /\ sst_pc = "idle"

RecIdle ==
  /\ rec_raw = <<>> /\ rec_off = 0 /\ rec_recs = <<>> /\ rec_pc = "idle"

DocIdle ==
  /\ doc_file = <<>> /\ doc_targets = <<>> /\ doc_fn = "none"
  /\ doc_pc = "idle" /\ doc_text = <<>> /\ doc_out = <<>>

ConcIdle ==
  /\ cc_doc = <<>> /\ cc_pc = <<>> /\ cc_cand = <<>> /\ cc_result = <<>>

IterIdle ==
  /\ it_data = <<>>
  /\ it_off = 0
  /\ it_out = <<>>
  /\ it_pc = "idle"

UcsIdle ==
  /\ u_wb = <<>> /\ u_chunks = <<>> /\ u_segs = <<>> /\ u_pos = 0
  /\ u_at = -1 /\ u_x = [ok |-> FALSE] /\ u_red = 0 /\ u_pc = "idle"

EmfIdle ==
  /\ emf_in = <<>> /\ emf_out = <<>> /\ emf_masks = <<>> /\ emf_pc = "idle"

BodyIdle ==
  /\ pb_raw = <<>> /\ pb_old = <<>> /\ pb_compressed = FALSE
  /\ pb_new_dec = <<>> /\ pb_out = <<>> /\ pb_hits = 0 /\ pb_pc = "idle"

XlsIdle ==
  /\ xs_wb = <<>> /\ xs_fn = "none" /\ xs_list = <<>> /\ xs_out = <<>>
  /\ xs_pc = "idle"

DirIdle ==
  /\ fd_direntries = <<>> /\ fd_name = <<>> /\ fd_entry = <<>> /\ fd_pc = "idle"

BinIdle ==
  /\ pbd_raw = <<>> /\ pbd_ole = <<>> /\ pbd_old = <<>> /\ pbd_out = <<>>
  /\ pbd_hits = 0 /\ pbd_pc = "idle"

FirstIdle == OleIdle /\ MaskIdle /\ HwpIdle /\ BiffIdle
LaterIdle == XlIdle /\ SstIdle /\ RecIdle /\ DocIdle /\ ConcIdle /\ IterIdle /\ UcsIdle /\ EmfIdle /\ BodyIdle /\ XlsIdle /\ DirIdle /\ BinIdle
IdleButXl == FirstIdle /\ SstIdle /\ RecIdle /\ DocIdle /\ ConcIdle /\ IterIdle /\ UcsIdle /\ EmfIdle /\ BodyIdle /\ XlsIdle /\ DirIdle /\ BinIdle
IdleButSst == FirstIdle /\ XlIdle /\ RecIdle /\ DocIdle /\ ConcIdle /\ IterIdle /\ UcsIdle /\ EmfIdle /\ BodyIdle /\ XlsIdle /\ DirIdle /\ BinIdle
IdleButRec == FirstIdle /\ XlIdle /\ SstIdle /\ DocIdle /\ ConcIdle /\ IterIdle /\ UcsIdle /\ EmfIdle /\ BodyIdle /\ XlsIdle /\ DirIdle /\ BinIdle
IdleButDoc == FirstIdle /\ XlIdle /\ SstIdle /\ RecIdle /\ ConcIdle /\ IterIdle /\ UcsIdle /\ EmfIdle /\ BodyIdle /\ XlsIdle /\ DirIdle /\ BinIdle
IdleButConc == FirstIdle /\ XlIdle /\ SstIdle /\ RecIdle /\ DocIdle /\ IterIdle /\ UcsIdle /\ EmfIdle /\ BodyIdle /\ XlsIdle /\ DirIdle /\ BinIdle
IdleButIter == FirstIdle /\ XlIdle /\ SstIdle /\ RecIdle /\ DocIdle /\ ConcIdle /\ UcsIdle /\ EmfIdle /\ BodyIdle /\ XlsIdle /\ DirIdle /\ BinIdle
IdleButUcs == FirstIdle /\ XlIdle /\ SstIdle /\ RecIdle /\ DocIdle /\ ConcIdle /\ IterIdle /\ EmfIdle /\ BodyIdle /\ XlsIdle /\ DirIdle /\ BinIdle
IdleButEmf == FirstIdle /\ XlIdle /\ SstIdle /\ RecIdle /\ DocIdle /\ ConcIdle /\ IterIdle /\ UcsIdle /\ BodyIdle /\ XlsIdle /\ DirIdle /\ BinIdle
IdleButBody == FirstIdle /\ XlIdle /\ SstIdle /\ RecIdle /\ DocIdle /\ ConcIdle /\ IterIdle /\ UcsIdle /\ EmfIdle /\ XlsIdle /\ DirIdle /\ BinIdle
IdleButXls == FirstIdle /\ XlIdle /\ SstIdle /\ RecIdle /\ DocIdle /\ ConcIdle /\ IterIdle /\ UcsIdle /\ EmfIdle /\ BodyIdle /\ DirIdle /\ BinIdle
IdleButDir == FirstIdle /\ XlIdle /\ SstIdle /\ RecIdle /\ DocIdle /\ ConcIdle /\ IterIdle /\ UcsIdle /\ EmfIdle /\ BodyIdle /\ XlsIdle /\ BinIdle
IdleButBin == FirstIdle /\ XlIdle /\ SstIdle /\ RecIdle /\ DocIdle /\ ConcIdle /\ IterIdle /\ UcsIdle /\ EmfIdle /\ BodyIdle /\ XlsIdle /\ DirIdle

\* number of sectors olefile derives from the file size; OleFileIO.loadfat
\* shrinks the FAT to it
nb_sect(n) == ((n + SectorSize - 1) \div SectorSize) - 1

SectorIds == 0..MaxSectors
FatValues == SectorIds \cup {ENDOFCHAIN}

ContainerLens == SectorSize..((MaxSectors + 1) * SectorSize)

\* the mask character '*'
STAR == 42

\* ------------------------------------------------- olefile (library) reads

\* OleStream.__init__: n sectors of size ssz along table t, read from src at
\* base + ssz * sect; <<ok, data>>, ok = FALSE when olefile raises IOError
RECURSIVE ole_chain(_, _, _, _, _, _)
ole_chain(src, t, ssz, base, sect, n) ==
  IF n = 0 THEN <<TRUE, <<>>>>
  ELSE IF sect = ENDOFCHAIN \/ sect < 0 \/ sect >= Len(t) THEN <<FALSE, <<>>>>
  ELSE LET d == Slice(src, base + ssz * sect, base + ssz * sect + ssz)
       IN  IF Len(d) # ssz /\ sect # Len(t) - 1 THEN <<FALSE, <<>>>>
           ELSE LET r == ole_chain(src, t, ssz, base, t[sect + 1], n - 1)
                IN  IF r[1] THEN <<TRUE, d \o r[2]>> ELSE r

OleStream(src, t, ssz, base, sect, size) ==
  LET r == ole_chain(src, t, ssz, base, sect, (size + ssz - 1) \div ssz)
  IN  IF r[1] /\ Len(r[2]) >= size
        THEN <<TRUE, SubSeq(r[2], 1, size)>>
        ELSE <<FALSE, <<>>>>

\* root.size as olefile uses it: loadminifat shrinks the MiniFAT to the
\* number of mini sectors of the mini stream
RootSize == Len(minifat) * MiniSectorSize

\* ole.openstream(p).read() for the stream of directory entry e, read from the
\* CFBF bytes raw
openstream(raw, e) ==
  IF e.size < MiniCutoff
    THEN LET mini == OleStream(raw, fat, SectorSize, SectorSize,
                               root.isectStart, RootSize)
         IN  IF ~mini[1] THEN <<FALSE, <<>>>>
             ELSE OleStream(mini[2], minifat, MiniSectorSize, 0, e.start,
                            e.size)
    ELSE OleStream(raw, fat, SectorSize, SectorSize, e.start, e.size)

\* ------------------------------------------------------------- operations

\* big_sector_from_minioffset: <<ok, s, within>>; ok = FALSE is (None, None)
RECURSIVE big_walk(_, _)
big_walk(sect, n) ==
  IF n = 0 THEN <<TRUE, sect>>
  ELSE IF sect = -1 \/ sect = ENDOFCHAIN \/ sect >= Len(fat) THEN <<FALSE, 0>>
  ELSE big_walk(fat[sect + 1], n - 1)

big_sector_from_minioffset(root_start_sector, mini_offset) ==
  LET block_idx == mini_offset \div SectorSize
      within == mini_offset % SectorSize
      r == big_walk(root_start_sector, block_idx)
  IN  <<r[1], r[2], within>>

\* the condition of the while loops of the two overwrites
LoopCond == s # ENDOFCHAIN /\ s # -1 /\ pos < Len(new_raw)

\* main.py / app.py: the table the orchestrator writes a stream through
which ==
  IF stream_kind = "body" /\ de.size < MiniCutoff THEN "MiniFAT" ELSE "FAT"

\* the CLI orchestrator calls overwrite_bigfat / overwrite_minifat_chain with
\* the start sector of the directory entry find_direntry_tail returned and the
\* payload process_body_stream / process_bindata built
Call ==
  /\ UNCHANGED <<maskvars, hwpvars, biffvars, latervars>>
  /\ pc = "start"
  /\ impl = "core"
  /\ \E n \in 1..MaxRaw : new_raw' = NewBytes(n)
  /\ s' = de.start
  /\ start_sector' = de.start
  /\ tbl' = which
  /\ pos' = 0
  /\ w' = 0
  /\ before' = container
  /\ visited' = <<>>
  /\ pc' = IF which = "FAT" THEN "bigfat"
           ELSE IF root.present THEN "minifat" ELSE "done"
  /\ UNCHANGED <<oleconf, container, ole_fat_global, result>>

\* off = (s + 1) * sec: the file offset of big sector sect
SectorOffset_skew(sect) == sect * SectorSize
SectorOffset(sect) == (sect + 1) * SectorSize

\* one iteration of the while loop of overwrite_bigfat
overwrite_bigfat_hop ==
  /\ UNCHANGED <<maskvars, hwpvars, biffvars, latervars>>
  /\ pc = "bigfat"
  /\ LoopCond
  /\ s < Len(fat)
  /\ LET off == SectorOffset(s)
         chunk == Slice(new_raw, pos, pos + SectorSize)
     IN  container' = SliceAssign(container, off, off + Len(chunk), chunk)
  /\ pos' = pos + SectorSize
  /\ s' = fat[s + 1]
  /\ w' = w + 1
  /\ visited' = Append(visited, s)
  /\ UNCHANGED <<oleconf, new_raw, before, tbl, start_sector, ole_fat_global,
                 pc, result>>

\* the loop of overwrite_bigfat ends: condition false, or break
overwrite_bigfat_exit ==
  /\ UNCHANGED <<maskvars, hwpvars, biffvars, latervars>>
  /\ pc = "bigfat"
  /\ (~LoopCond \/ s >= Len(fat))
  /\ pc' = "done"
  /\ UNCHANGED <<oleconf, olewalk, container, ole_fat_global, result>>

\* one iteration of the while loop of overwrite_minifat_chain that writes
overwrite_minifat_hop ==
  /\ UNCHANGED <<maskvars, hwpvars, biffvars, latervars>>
  /\ pc = "minifat"
  /\ LoopCond
  /\ LET r == big_sector_from_minioffset(root.isectStart, s * MiniSectorSize)
         file_off == SectorOffset(r[2]) + r[3]
         chunk == Slice(new_raw, pos, pos + MiniSectorSize)
     IN  /\ r[1]
         /\ container' = SliceAssign(container, file_off,
                                     file_off + Len(chunk), chunk)
  /\ pos' = pos + MiniSectorSize
  /\ visited' = Append(visited, s)
  /\ IF s >= Len(minifat)
       THEN pc' = "done" /\ UNCHANGED <<s, w>>
       ELSE pc' = pc /\ s' = minifat[s + 1] /\ w' = w + 1
  /\ UNCHANGED <<oleconf, new_raw, before, tbl, start_sector, ole_fat_global,
                 result>>

\* the loop of overwrite_minifat_chain ends: condition false, or the
\* (None, None) break
overwrite_minifat_exit ==
  /\ UNCHANGED <<maskvars, hwpvars, biffvars, latervars>>
  /\ pc = "minifat"
  /\ \/ ~LoopCond
     \/ /\ LoopCond
        /\ ~big_sector_from_minioffset(root.isectStart,
                                       s * MiniSectorSize)[1]
  /\ pc' = "done"
  /\ UNCHANGED <<oleconf, olewalk, container, ole_fat_global, result>>

\* ------------------------------- redact_ole_bin_preserve_size (server/xml)

\* _read_big_chain_bytes before the final out[:need]
RECURSIVE read_big_chain(_, _, _, _)
read_big_chain(raw, sect, out, need) ==
  IF sect = -1 \/ sect = ENDOFCHAIN \/ Len(out) >= need THEN out
  ELSE IF sect >= Len(fat) THEN out
  ELSE LET off == (sect + 1) * SectorSize
       IN  read_big_chain(raw, fat[sect + 1],
                          out \o Slice(raw, off, off + SectorSize), need)

_read_big_chain_bytes(raw, start, need) ==
  Slice(read_big_chain(raw, start, <<>>, need), 0, need)

\* the inner hop loop of _read_mini_chain_bytes over ole_fat_global
RECURSIVE mini_big(_, _, _, _)
mini_big(g, big, hop, block_idx) ==
  IF hop < block_idx /\ big # -1 /\ big # ENDOFCHAIN /\ big < Len(g)
    THEN mini_big(g, g[big + 1], hop + 1, block_idx)
    ELSE big

\* _read_mini_chain_bytes before the final out[:need]; idle counts the
\* iterations since out last grew: more than len(minifat) of them repeat a
\* (s, len(out)) pair, so the while loop never ends: <<FALSE, _>>
RECURSIVE read_mini_chain(_, _, _, _, _, _, _)
read_mini_chain(raw, g, root_start, sect, out, need, idle) ==
  IF sect = -1 \/ sect = ENDOFCHAIN \/ Len(out) >= need THEN <<TRUE, out>>
  ELSE IF idle > Len(minifat) THEN <<FALSE, out>>
  ELSE LET mini_off == sect * MiniSectorSize
           block_idx == mini_off \div SectorSize
           within == mini_off % SectorSize
           big == mini_big(g, root_start, 0, block_idx)
       IN  IF big = -1 \/ big = ENDOFCHAIN \/ big >= Len(g) THEN <<TRUE, out>>
           ELSE LET file_off == (big + 1) * SectorSize + within
                    got == Slice(raw, file_off, file_off + MiniSectorSize)
                    nxt == IF sect < Len(minifat) THEN minifat[sect + 1] ELSE -1
                IN  read_mini_chain(raw, g, root_start, nxt, out \o got, need,
                                    IF got = <<>> THEN idle + 1 ELSE 0)

_read_mini_chain_bytes(raw, g, root_start, start, need) ==
  LET r == read_mini_chain(raw, g, root_start, start, <<>>, need, 0)
  IN  <<r[1], Slice(r[2], 0, need)>>

\* _bruteforce_locate_start with kind_hint = "mini" if size < cutoff else
\* "big": <<"found", cand, kind>>, <<"none", 0, "">> or <<"hang", 0, "">>
\* (its trailing MiniFAT scan needs kind_hint # "mini" /\ size < cutoff and is
\* never entered with this hint)
_bruteforce_locate_start(raw, g, stream_head, size) ==
  LET K == Min(size, Len(stream_head))
      head == Slice(stream_head, 0, K)
      root_start == IF root.present THEN root.isectStart ELSE -1
      scan_mini == size < MiniCutoff /\ root_start >= 0 /\ minifat # <<>>
      minis == IF scan_mini THEN 0..(Len(minifat) - 1) ELSE {}
      mhit == {c \in minis : _read_mini_chain_bytes(raw, g, root_start, c, K) = <<TRUE, head>>}
      mhang == {c \in minis : ~_read_mini_chain_bytes(raw, g, root_start, c, K)[1]}
      bhit == {c \in 0..(Len(fat) - 1) : _read_big_chain_bytes(raw, c, K) = head}
      first(S) == CHOOSE c \in S : \A d \in S : c <= d
  IN  IF K <= 0 THEN <<"none", 0, "">>
      ELSE IF mhang # {} /\ (mhit = {} \/ first(mhang) < first(mhit))
        THEN <<"hang", 0, "">>
      ELSE IF mhit # {} THEN <<"found", first(mhit), "MiniFAT(brute)">>
      ELSE IF bhit # {} THEN <<"found", first(bhit), "BigFAT(brute)">>
      ELSE <<"none", 0, "">>

\* the masking pipeline of _process_cfbf_blob on a stream that holds
\* sensitive text: a same-length buffer that differs from the stream
MaskStream(raw_stream) == [i \in 1..Len(raw_stream) |-> STAR]

\* _process_cfbf_blob up to the overwrite call: open the stream, mask it,
\* find its start sector; a stream that cannot be read or located is skipped
\* and redact_ole_bin_preserve_size returns bin_bytes
xml_process_stream ==
  /\ UNCHANGED <<maskvars, hwpvars, biffvars, latervars>>
  /\ pc = "start"
  /\ impl = "xml"
  /\ LET st == openstream(container, de)
         size == de.size
         out == MaskStream(st[2])
         loc == IF de_attrs THEN <<"found", de.start, "">>
                ELSE _bruteforce_locate_start(container, fat, st[2], size)
     IN  /\ ole_fat_global' = IF st[1] /\ ~de_attrs THEN fat ELSE ole_fat_global
         /\ IF ~st[1] \/ loc[1] = "none"
              THEN /\ pc' = "returned"
                   /\ result' = bin_bytes
                   /\ UNCHANGED olewalk
            ELSE IF loc[1] = "hang"
              THEN /\ pc' = "hang"
                   /\ UNCHANGED <<olewalk, result>>
            ELSE /\ s' = loc[2]
                 /\ start_sector' = loc[2]
                 /\ tbl' = IF size < MiniCutoff \/ loc[3] = "MiniFAT(brute)"
                             THEN "MiniFAT" ELSE "FAT"
                 /\ new_raw' = out
                 /\ pos' = 0
                 /\ w' = 0
                 /\ before' = container
                 /\ visited' = <<>>
                 /\ pc' = IF size < MiniCutoff \/ loc[3] = "MiniFAT(brute)"
                            THEN (IF root.present THEN "minifat" ELSE "done")
                            ELSE "bigfat"
                 /\ UNCHANGED result
  /\ UNCHANGED <<oleconf, container>>

\* redact_ole_bin_preserve_size after _process_cfbf_blob changed a stream:
\* out = bytearray(bin_bytes); out[off:off+len(cfbf)] = processed
xml_return ==
  /\ UNCHANGED <<maskvars, hwpvars, biffvars, latervars>>
  /\ pc = "done"
  /\ impl = "xml"
  /\ LET off == Len(bin_bytes) - Len(before)
     IN  result' = SliceAssign(bin_bytes, off, off + Len(before), container)
  /\ pc' = "returned"
  /\ UNCHANGED <<oleconf, olewalk, container, ole_fat_global>>

\* the bytes in front of an embedded CFBF signature
PrefixBytes(n) == [i \in 1..n |-> 90 + i]

\* the state after the container is read and opened; big_only keeps the
\* streams that are written through the FAT
OleStart(big_only) ==
  /\ MaskIdle
  /\ HwpIdle
  /\ BiffIdle
  /\ LaterIdle
  /\ impl \in {"core", "xml"}
  /\ stream_kind \in {"body", "chart"}
  /\ impl = "xml" => stream_kind = "chart"
  /\ \E n \in ContainerLens : container = OrigBytes(n)
  /\ Len(container) > SectorSize
  /\ \E p \in 0..MaxPrefix :
       /\ bin_bytes = PrefixBytes(p) \o container
       /\ impl = "core" => p = 0
  /\ fat \in SeqsUpTo(FatValues, MaxSectors)
  /\ Len(fat) <= nb_sect(Len(container))
  /\ de \in [start : FatValues, size : 1..MaxRaw]
  /\ de_attrs \in BOOLEAN
  /\ impl = "core" => de_attrs
  /\ LET big == de.size >= MiniCutoff
                   \/ (stream_kind = "chart" /\ impl = "core")
     IN  /\ big_only => big
         /\ minifat \in IF big THEN {<<>>}
                         ELSE SeqsUpTo(FatValues, MaxMiniFat)
         /\ root \in IF big
                        THEN {[present |-> TRUE, isectStart |-> ENDOFCHAIN]}
                        ELSE [present : BOOLEAN, isectStart : FatValues]
  /\ ~root.present => root.isectStart = ENDOFCHAIN
  /\ (impl = "core" /\ which = "MiniFAT")
        => OleStream(container, fat, SectorSize, SectorSize, root.isectStart,
                     RootSize)[1]
  /\ ole_fat_global = <<>>
  /\ pc = "start"
  /\ s = 0
  /\ pos = 0
  /\ new_raw = <<>>
  /\ w = 0
  /\ before = <<>>
  /\ visited = <<>>
  /\ tbl = "none"
  /\ start_sector = 0
  /\ result = <<>>

InitOle == OleStart(FALSE)

NextOle ==
  \/ Call
  \/ overwrite_bigfat_hop
  \/ overwrite_bigfat_exit
  \/ overwrite_minifat_hop
  \/ overwrite_minifat_exit
  \/ xml_process_stream
  \/ xml_return

SpecOle == InitOle /\ [][NextOle]_vars

\* the runs of overwrite_bigfat alone: the streams the orchestrators write
\* through the FAT
InitBigFat == OleStart(TRUE)

NextBigFat ==
  \/ Call
  \/ overwrite_bigfat_hop
  \/ overwrite_bigfat_exit
  \/ xml_process_stream
  \/ xml_return

SpecBigFat == InitBigFat /\ [][NextBigFat]_vars

\* ---------------------------------------------- same-length mask primitives

\* longest data buffer, in tokens of DataTokens
MaxTokens == 5

\* U+FF0A, the mask character of the encodings other than UTF-16LE
FULLWIDTH_STAR == 65290

\* str.encode("utf-16le") of one code point
utf16le_char(c) ==
  IF c < 65536 THEN <<c % 256, c \div 256>>
  ELSE LET v == c - 65536
           hi == 55296 + (v \div 1024)
           lo == 56320 + (v % 1024)
       IN  <<hi % 256, hi \div 256, lo % 256, lo \div 256>>

\* str.encode("utf-8") of one code point
utf8_char(c) ==
  IF c < 128 THEN <<c>>
  ELSE IF c < 2048 THEN <<192 + (c \div 64), 128 + (c % 64)>>
  ELSE IF c < 65536
    THEN <<224 + (c \div 4096), 128 + ((c \div 64) % 64), 128 + (c % 64)>>
  ELSE <<240 + (c \div 262144), 128 + ((c \div 4096) % 64),
         128 + ((c \div 64) % 64), 128 + (c % 64)>>

\* str.encode("cp949") of one code point, for the code points of the model;
\* <<>> stands for UnicodeEncodeError
cp949_char(c) ==
  IF c < 128 THEN <<c>>
  ELSE IF c = 44032 THEN <<176, 161>>
  ELSE IF c = FULLWIDTH_STAR THEN <<163, 170>>
  ELSE <<>>

\* str.encode(enc): <<ok, bytes>>
RECURSIVE encode(_, _)
encode(str, enc) ==
  IF str = <<>> THEN <<TRUE, <<>>>>
  ELSE LET c == Head(str)
           b == IF enc = "utf-16le" THEN utf16le_char(c)
                ELSE IF enc = "utf-8" THEN utf8_char(c)
                ELSE cp949_char(c)
           r == encode(Tail(str), enc)
       IN  IF b = <<>> \/ ~r[1] THEN <<FALSE, <<>>>> ELSE <<TRUE, b \o r[2]>>

\* mask_char * k as a string
Repeat(c, k) == [x \in 1..k |-> c]

\* bytes.find(needle, i): the least 0-based j >= i where needle occurs, or -1
find(ba, needle, i) ==
  LET n == Len(needle)
      hit == {j \in i..(Len(ba) - n) : Slice(ba, j, j + n) = needle}
  IN  IF hit = {} THEN -1 ELSE CHOOSE j \in hit : \A x \in hit : j <= x

\* the while True loop shared by utf16_same_len_replace_with_logs and
\* replace_bytes_with_enc, for a needle of positive length: <<ba, cnt>>
RECURSIVE replace_loop(_, _, _, _, _)
replace_loop(ba, needle, repl, i, cnt) ==
  LET j == find(ba, needle, i)
      n == Len(needle)
  IN  IF j = -1 THEN <<ba, cnt>>
      ELSE replace_loop(SliceAssign(ba, j, j + n, repl), needle, repl, j + n,
                        cnt + 1)

\* each primitive as <<status, out, cnt>>: status "ok" when the call returns
\* (out, cnt), "raised" when it raises, "hang" when its loop never ends

utf16_same_len_replace_with_logs(data, old) ==
  LET old_u16 == encode(old, "utf-16le")[2]
      n == Len(old_u16)
      repl == encode(Repeat(STAR, n \div 2), "utf-16le")[2]
  IN  IF n = 0 THEN <<"ok", data, 0>>
      ELSE LET r == replace_loop(data, old_u16, repl, 0, 0)
           IN  <<"ok", r[1], r[2]>>

\* struct.unpack("<" + "H" * k, b) of a buffer of 2 * k bytes
unpack_H(b) == [x \in 1..(Len(b) \div 2) |-> b[2 * x - 1] + 256 * b[2 * x]]

\* struct.pack("<" + "H" * len(u16), *u16)
pack_H(u16) ==
  [x \in 1..(2 * Len(u16)) |->
     IF x % 2 = 1 THEN u16[(x + 1) \div 2] % 256 ELSE u16[x \div 2] \div 256]

\* the inner matching loop of visible_replace_keep_len_with_logs: <<j, k>>
RECURSIVE match_skip(_, _, _, _)
match_skip(u16, target, j, k) ==
  IF j < Len(target) /\ k < Len(u16)
    THEN IF u16[k + 1] < 32 THEN match_skip(u16, target, j, k + 1)
         ELSE IF u16[k + 1] = target[j + 1]
           THEN match_skip(u16, target, j + 1, k + 1)
         ELSE <<j, k>>
    ELSE <<j, k>>

\* the fill loop: the first m visible units of u16[p:k] become 0x002A
RECURSIVE fill_visible(_, _, _, _, _)
fill_visible(u16, p, k, filled, m) ==
  IF p < k /\ filled < m
    THEN IF u16[p + 1] >= 32
           THEN fill_visible([u16 EXCEPT ![p + 1] = STAR], p + 1, k,
                             filled + 1, m)
           ELSE fill_visible(u16, p + 1, k, filled, m)
    ELSE u16

\* the outer while i < len(u16) loop: <<u16, total>>
RECURSIVE visible_scan(_, _, _, _)
visible_scan(u16, target, i, total) ==
  IF i >= Len(u16) THEN <<u16, total>>
  ELSE LET r == match_skip(u16, target, 0, i)
       IN  IF r[1] = Len(target)
             THEN visible_scan(fill_visible(u16, i, r[2], 0, Len(target)),
                               target, r[2], total + 1)
             ELSE visible_scan(u16, target, i + 1, total)

visible_replace_keep_len_with_logs(data, old) ==
  LET d == utf16_same_len_replace_with_logs(data, old)
      old_u16 == encode(old, "utf-16le")[2]
  IN  IF d[3] # 0 THEN <<"ok", d[2], d[3]>>
      ELSE IF Len(data) < 2 \/ Len(data) % 2 # 0 THEN <<"ok", data, 0>>
      \* "H" * len(old) asks for 2 * len(old) bytes: struct.error otherwise
      ELSE IF Len(old_u16) # 2 * Len(old) THEN <<"raised", <<>>, 0>>
      ELSE IF Len(old) = 0 THEN <<"ok", data, 0>>
      ELSE LET r == visible_scan(unpack_H(data), unpack_H(old_u16), 0, 0)
           IN  <<"ok", pack_H(r[1]), r[2]>>

mask_same_len(b, fill) ==
  IF b = <<>> THEN b
  ELSE LET need == Len(b)
           reps == (need + Len(fill) - 1) \div Len(fill)
           rec[k \in 0..reps] == IF k = 0 THEN <<>> ELSE rec[k - 1] \o fill
       IN  Slice(rec[reps], 0, need)

replace_bytes_with_enc(data, old_text, enc) ==
  LET e == encode(old_text, enc)
      needle == e[2]
      mask_char == IF enc = "utf-16le" THEN STAR ELSE FULLWIDTH_STAR
      r0 == encode(Repeat(mask_char, Len(old_text)), enc)[2]
      repl == IF Len(r0) # Len(needle) THEN Repeat(STAR, Len(needle)) ELSE r0
  IN  IF ~e[1] THEN <<"raised", <<>>, 0>>
      \* ba.find(b"", 0) is 0 and i = j + 0 never advances
      ELSE IF Len(needle) = 0 THEN <<"hang", <<>>, 0>>
      ELSE LET r == replace_loop(data, needle, repl, 0, 0)
           IN  <<"ok", r[1], r[2]>>

\* the for loop of try_patterns over the encodings left in encs
RECURSIVE try_encs(_, _, _, _)
try_encs(cur, text, encs, total) ==
  IF encs = <<>> THEN <<"ok", cur, total>>
  ELSE LET r == replace_bytes_with_enc(cur, text, Head(encs))
       IN  IF r[1] = "hang" THEN r
           ELSE IF r[1] = "ok" /\ r[3] > 0
             THEN try_encs(r[2], text, Tail(encs), total + r[3])
           ELSE try_encs(cur, text, Tail(encs), total)

try_patterns(blob, text) ==
  try_encs(blob, text, <<"utf-16le", "utf-8", "cp949">>, 0)

\* the byte runs data buffers are built from: UTF-16LE 'A', 'B' and U+0001,
\* a lone byte 'A', and the cp949 bytes of U+AC00
DataTokens == {<<65, 0>>, <<66, 0>>, <<1, 0>>, <<65>>, <<176, 161>>}

RECURSIVE Flatten(_)
Flatten(ts) == IF ts = <<>> THEN <<>> ELSE Head(ts) \o Flatten(Tail(ts))

DataSet == {Flatten(ts) : ts \in SeqsUpTo(DataTokens, MaxTokens)}

\* the secrets: "", "A", "AB", "*", U+AC00 (a Hangul syllable: two bytes in
\* cp949, three in UTF-8) and U+1F600 (outside the BMP, not in cp949)
Secrets == {<<>>, <<65>>, <<65, 66>>, <<STAR>>, <<44032>>, <<128512>>}

Encodings == {"utf-16le", "utf-8", "cp949"}

Fills == {<<STAR>>, <<STAR, 0>>}

\* what a call leaves behind
Returned(fn, r) ==
  /\ m_fn' = fn
  /\ m_pc' = IF r[1] = "ok" THEN "done" ELSE r[1]
  /\ m_out' = r[2]
  /\ m_hits' = r[3]
  /\ UNCHANGED <<m_data, m_old, m_out2, m_hits2, olevars, hwpvars, biffvars,
               latervars>>

Call_utf16_same_len_replace_with_logs ==
  /\ m_pc = "start"
  /\ Returned("utf16_same_len_replace_with_logs",
              utf16_same_len_replace_with_logs(m_data, m_old))

Call_visible_replace_keep_len_with_logs ==
  /\ m_pc = "start"
  /\ Returned("visible_replace_keep_len_with_logs",
              visible_replace_keep_len_with_logs(m_data, m_old))

Call_replace_bytes_with_enc ==
  /\ m_pc = "start"
  /\ \E enc \in Encodings :
       Returned("replace_bytes_with_enc",
                replace_bytes_with_enc(m_data, m_old, enc))

Call_try_patterns ==
  /\ m_pc = "start"
  /\ Returned("try_patterns", try_patterns(m_data, m_old))

Call_mask_same_len ==
  /\ m_pc = "start"
  /\ \E fill \in Fills :
       Returned("mask_same_len", <<"ok", mask_same_len(m_data, fill), 0>>)

\* the detection is run again on the masked output, with the same secret
Rescan ==
  /\ m_pc = "done"
  /\ m_fn = "visible_replace_keep_len_with_logs"
  /\ LET r == visible_replace_keep_len_with_logs(m_out, m_old)
     IN  /\ m_pc' = IF r[1] = "ok" THEN "rescanned" ELSE "rescan_" \o r[1]
         /\ m_out2' = r[2]
         /\ m_hits2' = r[3]
  /\ UNCHANGED <<m_data, m_old, m_fn, m_out, m_hits, olevars, hwpvars,
               biffvars, latervars>>

InitMask ==
  /\ OleIdle
  /\ HwpIdle
  /\ BiffIdle
  /\ LaterIdle
  /\ m_data \in DataSet
  /\ m_old \in Secrets
  /\ m_pc = "start"
  /\ m_fn = "none"
  /\ m_out = <<>> /\ m_hits = 0 /\ m_out2 = <<>> /\ m_hits2 = 0

NextMask ==
  \/ Call_utf16_same_len_replace_with_logs
  \/ Call_visible_replace_keep_len_with_logs
  \/ Call_replace_bytes_with_enc
  \/ Call_try_patterns
  \/ Call_mask_same_len
  \/ Rescan

SpecMask == InitMask /\ [][NextMask]_vars

\* ------------------------------------------------------- hwp_module.redact

\* longest decompressed section stream, in bytes
MaxDec == 7

\* sector size of the HWP container of this part
HwpSector == 2

TAG_PARA_TEXT == 67

\* the bytes section streams are built from: 0, 32 (record size 2 as the third
\* header byte, size 512 as the fourth), '9' (a character inside a match of a
\* redaction rule) and 67 (TAG_PARA_TEXT as the first header byte)
HwpBytes == {0, 32, 57, TAG_PARA_TEXT}

\* raw deflate, reduced to its stored-block form: a block marker, the length
\* of the block, the bytes
zlib_compress(d) == <<1, Len(d)>> \o d

\* zlib.decompress(raw, -15): <<ok, dec>>, ok = FALSE is zlib.error
zlib_decompress(raw) ==
  IF Len(raw) >= 2 /\ raw[1] = 1 /\ raw[2] = Len(raw) - 2
    THEN <<TRUE, SubSeq(raw, 3, Len(raw))>>
    ELSE <<FALSE, <<>>>>

\* struct.unpack_from("<I", data, off)[0]
unpack_I(data, off) ==
  data[off + 1] + 256 * data[off + 2] + 65536 * data[off + 3]
    + 16777216 * data[off + 4]

\* payload.decode("utf-16le", errors="ignore"): the whole code units
decode_utf16le(b) == unpack_H(SubSeq(b, 1, 2 * (Len(b) \div 2)))

\* apply_redaction_rules: every character of a validated match that is
\* alphanumeric becomes '*'; the text keeps its length. In the texts of this
\* part the matches are the '9' characters.
apply_redaction_rules(text) ==
  [x \in 1..Len(text) |-> IF text[x] = 57 THEN STAR ELSE text[x]]

\* enc[:size].ljust(size, b"\x00")
ljust(b, size) ==
  [x \in 1..Max(size, Len(b)) |-> IF x <= Len(b) THEN b[x] ELSE 0]

\* the while off + 4 < n loop of redact; n is len(data) before the loop
RECURSIVE redact_records(_, _, _)
redact_records(data, off, n) ==
  IF ~(off + 4 < n) THEN data
  ELSE LET header == unpack_I(data, off)
           tag == header % 1024
           size == (header \div 1048576) % 4096
           o == off + 4
       IN  IF tag = TAG_PARA_TEXT /\ size > 0
             THEN LET text == decode_utf16le(Slice(data, o, o + size))
                      enc == pack_H(apply_redaction_rules(text))
                      new == ljust(Slice(enc, 0, size), size)
                  IN  redact_records(SliceAssign(data, o, o + size, new),
                                     o + size, n)
             ELSE redact_records(data, o + size, n)

\* hwp_module.redact(file_bytes)
redact ==
  /\ h_pc = "start"
  /\ LET z == zlib_decompress(h_raw)
         dec == IF z[1] THEN z[2] ELSE h_raw
         data == redact_records(dec, 0, Len(dec))
     IN  h_out' = IF ~exists THEN file_bytes
                  ELSE IF z[1] THEN zlib_compress(data)
                  ELSE data
  /\ h_pc' = "returned"
  /\ UNCHANGED <<file_bytes, exists, h_raw, olevars, maskvars, biffvars,
               latervars>>

\* an OLE container: header, FAT and directory sectors, then the sectors of
\* the section stream when it has one
HwpContainer(raw) ==
  LET pad == (HwpSector - (Len(raw) % HwpSector)) % HwpSector
  IN  [i \in 1..(3 * HwpSector) |-> 200 + i] \o raw \o [i \in 1..pad |-> 0]

InitHwp ==
  /\ OleIdle
  /\ MaskIdle
  /\ BiffIdle
  /\ LaterIdle
  /\ exists \in BOOLEAN
  /\ \E d \in SeqsUpTo(HwpBytes, MaxDec) :
       h_raw \in IF exists THEN {d, zlib_compress(d)} ELSE {<<>>}
  /\ file_bytes = HwpContainer(h_raw)
  /\ h_pc = "start"
  /\ h_out = <<>>

NextHwp == redact

SpecHwp == InitHwp /\ [][NextHwp]_vars

\* ------------------------------------------------ doc_chart: BIFF CONTINUE

\* most records in a BIFF buffer, longest declared payload, most bytes missing
\* from the end of the buffer
MaxRecs == 3
MaxPayload == 2
MaxCut == 3

CONTINUE == 60
OP_TEXT == 4

\* struct.unpack_from("<H", b, off)[0]
le16(b, off) == b[off + 1] + 256 * b[off + 2]

\* one record: opcode and declared length as two little-endian u16, then the
\* payload; payload bytes are told apart by their position
Record(op, ln, base) ==
  <<op % 256, op \div 256, ln % 256, ln \div 256>>
    \o [i \in 1..ln |-> 100 + base + i]

RECURSIVE BiffOf(_, _)
BiffOf(recs, base) ==
  IF recs = <<>> THEN <<>>
  ELSE LET r == Record(Head(recs)[1], Head(recs)[2], base)
       IN  r \o BiffOf(Tail(recs), base + Len(r))

\* BIFF buffers: up to MaxRecs records, the last bytes possibly missing
BiffSet ==
  {LET b == BiffOf(recs, 0) IN SubSeq(b, 1, Len(b) - Min(cut, Len(b))) :
     recs \in SeqsUpTo({CONTINUE, OP_TEXT} \X (0..MaxPayload), MaxRecs),
     cut \in 0..MaxCut}

\* iter_biff_records: the record offsets it yields
RECURSIVE iter_biff_records(_, _)
iter_biff_records(data, off) ==
  IF off + 4 <= Len(data)
    THEN <<off>> \o iter_biff_records(data, off + 4 + le16(data, off + 2))
    ELSE <<>>

\* the while loop of collect_continue_chuncks: <<chunks, segs>>
RECURSIVE collect_loop(_, _, _, _)
collect_loop(b, cur_off, ch, sg) ==
  IF cur_off + 4 <= Len(b) /\ le16(b, cur_off) = CONTINUE
    THEN LET payload_off == cur_off + 4
             payload_end == payload_off + le16(b, cur_off + 2)
         IN  collect_loop(b, payload_end,
                          Append(ch, Slice(b, payload_off, payload_end)),
                          Append(sg, <<payload_off, payload_end>>))
    ELSE <<ch, sg>>

collect_continue_chuncks(b, off) ==
  IF le16(b, off) = CONTINUE THEN <<<<>>, <<>>>>
  ELSE LET payload_off == off + 4
           payload_end == payload_off + le16(b, off + 2)
       IN  collect_loop(b, payload_end,
                        <<Slice(b, payload_off, payload_end)>>,
                        <<<<payload_off, payload_end>>>>)

\* coalesce_continue: <<merged, segs, cur_off>>
RECURSIVE coalesce_continue(_, _, _, _)
coalesce_continue(b, cur_off, merged, sg) ==
  IF ~(cur_off + 4 <= Len(b)) THEN <<merged, sg, cur_off>>
  ELSE IF le16(b, cur_off) = CONTINUE /\ sg = <<>>
    THEN <<merged, sg, cur_off>>
  ELSE LET payload_off == cur_off + 4
           payload_end == payload_off + le16(b, cur_off + 2)
           m2 == merged \o Slice(b, payload_off, payload_end)
           s2 == Append(sg, <<payload_off, payload_end>>)
       IN  IF payload_end + 4 > Len(b) THEN <<m2, s2, payload_end>>
           ELSE IF le16(b, payload_end) # CONTINUE THEN <<m2, s2, payload_end>>
           ELSE coalesce_continue(b, payload_end, m2, s2)

\* scan_and_redact_payload / the record scan collect the chunks of a record
Call_collect_continue_chuncks ==
  /\ b_pc = "start"
  /\ LET r == collect_continue_chuncks(wb, b_off)
     IN  chunks' = r[1] /\ segs' = r[2]
  /\ b_by' = "collect_continue_chuncks"
  /\ b_pc' = "collected"
  /\ UNCHANGED <<biff, wb, b_off, olevars, maskvars, hwpvars,
               latervars>>

Call_coalesce_continue ==
  /\ b_pc = "start"
  /\ LET r == coalesce_continue(wb, b_off, <<>>, <<>>)
     IN  chunks' = <<r[1]>> /\ segs' = r[2]
  /\ b_by' = "coalesce_continue"
  /\ b_pc' = "collected"
  /\ UNCHANGED <<biff, wb, b_off, olevars, maskvars, hwpvars,
               latervars>>

\* merged[p:p+ln]
merged_piece_skew(merged, p, ln) == Slice(merged, p + 1, p + 1 + ln)
merged_piece(merged, p, ln) == Slice(merged, p, p + ln)

\* the for loop of write_chunks_back_to_wb over the segments left in sg
RECURSIVE write_back_loop(_, _, _, _)
write_back_loop(buf, merged, sg, p) ==
  IF sg = <<>> THEN buf
  ELSE LET lo == Head(sg)[1]
           hi == Head(sg)[2]
           ln == hi - lo
       IN  write_back_loop(SliceAssign(buf, lo, hi, merged_piece(merged, p, ln)),
                           merged, Tail(sg), p + ln)

write_chunks_back_to_wb ==
  /\ b_pc = "collected"
  /\ wb' = write_back_loop(wb, Flatten(chunks), segs, 0)
  /\ b_pc' = "written"
  /\ UNCHANGED <<biff, b_off, chunks, segs, b_by, olevars, maskvars, hwpvars,
               latervars>>

InitBiff ==
  /\ OleIdle
  /\ MaskIdle
  /\ HwpIdle
  /\ LaterIdle
  /\ biff \in BiffSet
  /\ wb = biff
  /\ \E k \in DOMAIN iter_biff_records(biff, 0) :
       b_off = iter_biff_records(biff, 0)[k]
  /\ b_pc = "start"
  /\ chunks = <<>> /\ segs = <<>> /\ b_by = "none"

NextBiff ==
  \/ Call_collect_continue_chuncks
  \/ Call_coalesce_continue
  \/ write_chunks_back_to_wb

SpecBiff == InitBiff /\ [][NextBiff]_vars

\* ------------------------------------------------------------ claims

\* C1: redact_ole_bin_preserve_size returns a byte string as long as its input
\* bin_bytes, whatever sector offsets the FAT / MiniFAT chains resolve to.
C1_SameLength == pc = "returned" => Len(result) = Len(bin_bytes)

\* C5: overwrite_bigfat and overwrite_minifat_chain never change
\* len(container): every chunk is copied into offsets the buffer already has.
C5_NoGrowth == tbl # "none" => Len(container) = Len(before)

\* the walk the amended C6 describes: the sectors a chunk is written for
RECURSIVE BigChain(_, _, _)
BigChain(sect, k, raw) ==
  IF sect = ENDOFCHAIN \/ sect = -1 \/ sect >= Len(fat)
     \/ k * SectorSize >= Len(raw)
    THEN <<>>
    ELSE <<sect>> \o BigChain(fat[sect + 1], k + 1, raw)

\* the container the amended C6 describes: byte o (0-based) is the byte of the
\* last chunk that covers o, or the old byte when no chunk covers it
ExpectedBig(old, start, raw) ==
  LET ch == BigChain(start, 0, raw)
      lo(k) == (ch[k] + 1) * SectorSize
      hi(k) == lo(k) + Min(SectorSize, Len(raw) - (k - 1) * SectorSize)
      cover(o) == {k \in DOMAIN ch : lo(k) <= o /\ o < hi(k)}
      last(S) == CHOOSE k \in S : \A j \in S : j <= k
      n == IF ch = <<>> THEN Len(old)
           ELSE Max(Len(old), hi(last({k \in DOMAIN ch :
                                        \A j \in DOMAIN ch : hi(j) <= hi(k)})))
  IN  [i \in 1..n |->
         IF cover(i - 1) = {} THEN old[i]
         ELSE LET k == last(cover(i - 1))
              IN  raw[(k - 1) * SectorSize + (i - 1 - lo(k)) + 1]]

\* C6 as stated: the walk of overwrite_bigfat stops only on ENDOFCHAIN, on -1
\* or when all len(new_raw) bytes are covered.
C6_StopsOnlyOnThree ==
  (pc = "done" /\ tbl = "FAT")
     => (s = ENDOFCHAIN \/ s = -1 \/ pos >= Len(new_raw))

\* C6 amended: overwrite_bigfat copies the k-th chunk of new_raw to file offset
\* (s_k + 1) * sectorSize along s_0 = start_sector, s_(k+1) = fat[s_k], stops at
\* the first of s_k = ENDOFCHAIN, s_k = -1, s_k >= len(fat) or all bytes
\* covered, and leaves every byte outside those chunks unchanged.
C6_ChainWrite ==
  (pc = "done" /\ tbl = "FAT")
     => /\ visited = BigChain(start_sector, 0, new_raw)
        /\ container = ExpectedBig(before, start_sector, new_raw)
        /\ (s = ENDOFCHAIN \/ s = -1 \/ s >= Len(fat) \/ pos >= Len(new_raw))

\* C6 witness: a walk that wrote a chunk and then stopped on an index outside
\* the FAT with bytes of new_raw left over
C6_Witness ==
  /\ pc = "done" /\ tbl = "FAT"
  /\ Len(visited) >= 1
  /\ s # ENDOFCHAIN /\ s >= Len(fat)
  /\ pos < Len(new_raw)
  /\ container # before

\* C7: a walk that meets a sector index outside its allocation table writes no
\* chunk for that index.
C7_NoChunkOutOfRange ==
  \A i \in DOMAIN visited :
     visited[i] < Len(IF tbl = "MiniFAT" THEN minifat ELSE fat)

\* C8: when the walk ends before all len(new_raw) bytes are covered, the
\* stream's write is abandoned: the container is as it was before the call.
C8_AbandonOnFailure ==
  (pc = "done" /\ pos < Len(new_raw)) => container = before

\* C9: a chain walk performs at most len(fat) hops, so overwrite_bigfat writes
\* no sector twice.
C9_HopBudget ==
  tbl = "FAT"
     => /\ Len(visited) <= Len(fat)
        /\ \A i, j \in DOMAIN visited : visited[i] = visited[j] => i = j

\* C3: every same-length mask primitive returns, for all data and all secrets,
\* bytes as long as its input.
C3_MaskSameLength ==
  m_pc \in {"done", "raised", "hang"}
     => (m_pc = "done" /\ Len(m_out) = Len(m_data))

\* C4: for a non-empty secret, a second visible_replace_keep_len_with_logs on
\* the masked output returns 0 hits and the output unchanged.
C4_RescanIdempotent ==
  (m_old # <<>> /\ m_pc \in {"rescanned", "rescan_raised"})
     => (m_pc = "rescanned" /\ m_hits2 = 0 /\ m_out2 = m_out)

\* C2: for an HWP file that has a BodyText/Section0 stream, hwp_module.redact
\* returns a buffer as long as file_bytes.
C2_SameTotalLength ==
  (h_pc = "returned" /\ exists) => Len(h_out) = Len(file_bytes)

\* C10: collecting the chunks of a record and its CONTINUE records and writing
\* them back unmodified leaves the buffer byte-for-byte identical and as long
\* as before; the segments are the payloads of the record at the offset and of
\* the CONTINUE records that follow it back to back, and the run ends at the
\* first record that is not CONTINUE or at the end of the buffer.
C10_RoundTrip ==
  /\ b_pc = "written" => wb = biff
  /\ (b_pc \in {"collected", "written"} /\ le16(biff, b_off) # CONTINUE)
       => /\ segs # <<>>
          /\ segs[1][1] = b_off + 4
          /\ \A k \in DOMAIN segs :
               /\ segs[k][2] = segs[k][1] + le16(biff, segs[k][1] - 2)
               /\ k > 1 => /\ segs[k][1] = segs[k - 1][2] + 4
                           /\ le16(biff, segs[k - 1][2]) = CONTINUE
          /\ LET end == segs[Len(segs)][2]
             IN  end + 4 > Len(biff) \/ le16(biff, end) # CONTINUE
          /\ Flatten(chunks)
               = Flatten([k \in DOMAIN segs |->
                            Slice(biff, segs[k][1], segs[k][2])])

\* C10 witness: a record followed by two CONTINUE records, the last one cut
\* short by the end of the buffer, collected and written back
C10_Witness ==
  /\ b_pc = "written"
  /\ b_by = "collect_continue_chuncks"
  /\ Len(segs) = 3
  /\ segs[3][2] > Len(biff)
  /\ Len(chunks[3]) > 0
  /\ Len(chunks[1]) > 0

\* ------------------------------------ doc_chart: scan_and_redact_payload

\* most payload bytes of a string record and its CONTINUE record together
MaxText == 6
\* most bytes missing from the end of the workbook buffer
MaxTrunc == 1

\* payload bytes: 0 and 1 (a count, a flags byte), ' ' and '9'; as a flags
\* byte '9' has fHighByte and fRichSt set
XlBytes == {0, 1, 32, 57}

\* one BIFF record with the given payload
XlRecord(op, payload) ==
  <<op % 256, op \div 256, Len(payload) % 256, Len(payload) \div 256>>
    \o payload

\* the two while loops of read_bytes_fChunks (ch_idx is 0-based)
RECURSIVE fChunks_locate(_, _, _)
fChunks_locate(cs, ch_idx, local) ==
  IF ch_idx < Len(cs) /\ ~(local < Len(cs[ch_idx + 1]))
    THEN fChunks_locate(cs, ch_idx + 1, local - Len(cs[ch_idx + 1]))
    ELSE <<ch_idx, local>>

RECURSIVE fChunks_take(_, _, _, _, _)
fChunks_take(cs, ch_idx, local, out, need) ==
  IF ch_idx < Len(cs) /\ Len(out) < need
    THEN LET take == Min(need - Len(out), Len(cs[ch_idx + 1]) - local)
         IN  fChunks_take(cs, ch_idx + 1, 0,
                          out \o Slice(cs[ch_idx + 1], local, local + take),
                          need)
    ELSE out

\* read_bytes_fChunks: <<found, bytes>>, found = FALSE for None
read_bytes_fChunks(cs, p, need) ==
  LET at == fChunks_locate(cs, 0, p)
  IN  IF at[1] >= Len(cs) THEN <<FALSE, <<>>>>
      ELSE LET out == fChunks_take(cs, at[1], at[2], <<>>, need)
           IN  IF Len(out) < need THEN <<FALSE, <<>>>> ELSE <<TRUE, out>>

\* XLUCS.try_parse_chunks: the fields it sets, ok = FALSE when it returns
\* False
try_parse_chunks_skew(cs, p) ==
  LET n_header == read_bytes_fChunks(cs, p, 3)
      cch == le16(n_header[2], 0)
      flags == n_header[2][3]
      fHigh == flags % 2
      fExt == (flags \div 2) % 2
      fRich == (flags \div 8) % 2
      rich == read_bytes_fChunks(cs, p + 3, 2)
      pos_rich == IF fRich = 1 THEN p + 5 ELSE p + 3
      ext == read_bytes_fChunks(cs, pos_rich, 4)
      pos_cur == IF fExt = 1 THEN pos_rich + 4 ELSE pos_rich
      text_bytes == cch * (IF fHigh = 1 THEN 2 ELSE 1)
      raw_text == read_bytes_fChunks(cs, pos_cur, text_bytes)
  IN  IF ~n_header[1] THEN [ok |-> FALSE]
      ELSE IF fRich = 1 /\ ~rich[1] THEN [ok |-> FALSE]
      ELSE IF fExt = 1 /\ ~ext[1] THEN [ok |-> FALSE]
      ELSE IF ~raw_text[1] THEN [ok |-> FALSE]
      ELSE [ok |-> TRUE, cch |-> cch, flags |-> flags, fHigh |-> fHigh,
            fExt |-> fExt, fRich |-> fRich,
            cRun |-> IF fRich = 1 THEN le16(rich[2], 0) ELSE 0,
            cbExtRst |-> IF fExt = 1 THEN unpack_I(ext[2], 0) ELSE 0,
            text_lo |-> pos_cur, text_hi |-> pos_cur + text_bytes,
            buf |-> raw_text[2]]
try_parse_chunks(cs, p) ==
  LET n_header == read_bytes_fChunks(cs, p, 3)
      cch == le16(n_header[2], 0)
      flags == n_header[2][3]
      fHigh == flags % 2
      fExt == (flags \div 4) % 2
      fRich == (flags \div 8) % 2
      rich == read_bytes_fChunks(cs, p + 3, 2)
      pos_rich == IF fRich = 1 THEN p + 5 ELSE p + 3
      ext == read_bytes_fChunks(cs, pos_rich, 4)
      pos_cur == IF fExt = 1 THEN pos_rich + 4 ELSE pos_rich
      text_bytes == cch * (IF fHigh = 1 THEN 2 ELSE 1)
      raw_text == read_bytes_fChunks(cs, pos_cur, text_bytes)
  IN  IF ~n_header[1] THEN [ok |-> FALSE]
      ELSE IF fRich = 1 /\ ~rich[1] THEN [ok |-> FALSE]
      ELSE IF fExt = 1 /\ ~ext[1] THEN [ok |-> FALSE]
      ELSE IF ~raw_text[1] THEN [ok |-> FALSE]
      ELSE [ok |-> TRUE, cch |-> cch, flags |-> flags, fHigh |-> fHigh,
            fExt |-> fExt, fRich |-> fRich,
            cRun |-> IF fRich = 1 THEN le16(rich[2], 0) ELSE 0,
            cbExtRst |-> IF fExt = 1 THEN unpack_I(ext[2], 0) ELSE 0,
            text_lo |-> pos_cur, text_hi |-> pos_cur + text_bytes,
            buf |-> raw_text[2]]

\* raw.decode("cp949", errors="ignore") of bytes below 0x80 (every byte of
\* the modelled buffers is): one character per byte
decode_cp949(b) == SelectSeq(b, LAMBDA c : c < 128)

\* XLUCS.decode_text
decode_text(x) ==
  IF x.fHigh = 0 /\ Len(x.buf) >= 4 /\ x.buf[2] = 0 /\ x.buf[4] = 0
    THEN decode_utf16le(x.buf)
  ELSE IF x.fHigh = 1 THEN decode_utf16le(x.buf)
  ELSE decode_cp949(x.buf)

\* str.isspace of one character (the characters below U+0080)
isspace(c) == c \in {9, 10, 11, 12, 13, 28, 29, 30, 31, 32}

\* str.strip()
strip(text) ==
  LET keep == {i \in 1..Len(text) : ~isspace(text[i])}
  IN  IF keep = {} THEN <<>>
      ELSE SubSeq(text, CHOOSE i \in keep : \A j \in keep : i <= j,
                        CHOOSE i \in keep : \A j \in keep : i >= j)

\* normalization_text: runs of whitespace collapse to one space
normalization_text(text) ==
  LET keep == {i \in 1..Len(text) :
                 ~isspace(text[i]) \/ i = 1 \/ ~isspace(text[i - 1])}
  IN  [k \in 1..Cardinality(keep) |->
         LET i == CHOOSE i \in keep :
                    Cardinality({j \in keep : j <= i}) = k
         IN  IF isspace(text[i]) THEN 32 ELSE text[i]]

\* find_sensitive_spans: the positions of the sensitive characters; in the
\* texts of this part the matches are the '9' characters
find_sensitive_spans(text) == {i \in 1..Len(text) : text[i] = 57}

\* b[:size].ljust(size, b"*")
ljust_star(b, size) ==
  [i \in 1..size |-> IF i <= Len(b) THEN b[i] ELSE STAR]

\* write_chunk_mask: the first loop is the chunk search of
\* read_bytes_fChunks; the second writes masked chunk by chunk
RECURSIVE write_chunk_mask_loop(_, _, _, _)
write_chunk_mask_loop(cs, ch_idx, local, masked) ==
  IF ch_idx < Len(cs) /\ Len(masked) > 0
    THEN LET c == cs[ch_idx + 1]
             take == Min(Len(masked), Len(c) - local)
             c2 == SliceAssign(c, local, local + take, Slice(masked, 0, take))
         IN  write_chunk_mask_loop(
               SubSeq(cs, 1, ch_idx) \o <<c2>> \o SubSeq(cs, ch_idx + 2, Len(cs)),
               ch_idx + 1, 0, Slice(masked, take, Len(masked)))
    ELSE cs

write_chunk_mask(cs, lo, masked) ==
  LET at == fChunks_locate(cs, 0, lo)
  IN  write_chunk_mask_loop(cs, at[1], at[2], masked)

\* the while pos < total_len loop of scan_and_redact_payload:
\* <<chunks, red, the (pos, text_lo, text_hi) of the strings parsed>>
\* the rest of a pass of the while loop once x.try_parse_chunks(chunks, pos)
\* has returned: <<chunks, pos, red, parsed>> after the pass
scan_parsed(cs, p, red, parsed, x) ==
  IF ~x.ok THEN <<cs, p + 1, red, parsed>>
  ELSE
    LET text == strip(decode_text(x))
        hit == /\ text # <<>>
               /\ find_sensitive_spans(normalization_text(text)) # {}
        enc == IF x.fHigh = 1 THEN "utf-16le" ELSE "cp949"
        raw_len == x.text_hi - x.text_lo
        masked == ljust_star(
                    Slice(encode(Repeat(STAR, Len(text)), enc)[2],
                          0, raw_len), raw_len)
        header_len ==
          3 + (IF x.fRich = 1 THEN 2 + x.cRun * 4 ELSE 0)
            + (IF x.fExt = 1 THEN 4 + x.cbExtRst ELSE 0)
        advance == header_len + x.cch * (IF x.fHigh = 1 THEN 2 ELSE 1)
    IN  <<IF hit THEN write_chunk_mask(cs, x.text_lo, masked) ELSE cs,
          p + advance, IF hit THEN red + 1 ELSE red,
          Append(parsed, <<p, x.text_lo, x.text_hi>>)>>

\* one pass of the while loop of scan_and_redact_payload
scan_step(cs, p, red, parsed) ==
  CHOOSE n \in {scan_parsed(cs, p, red, parsed, x) :
                  x \in {try_parse_chunks(cs, p)}} : TRUE

\* the while loop: <<chunks, red, parsed>> when pos reaches total_len
RECURSIVE scan_loop(_, _, _, _)
scan_loop(cs, p, red, parsed) ==
  IF ~(p < Len(Flatten(cs))) THEN <<cs, red, parsed>>
  ELSE CHOOSE r \in {scan_loop(n[1], n[2], n[3], n[4]) :
                       n \in {scan_step(cs, p, red, parsed)}} : TRUE

\* [ -~]
printable(c) == c >= 32 /\ c <= 126

\* re.finditer(rb"[ -~]{5,}", seg): the (start, end) of the matches
ascii_runs(seg) ==
  {m \in (0..Len(seg)) \X (0..Len(seg)) :
     /\ m[2] - m[1] >= 5
     /\ \A i \in (m[1] + 1)..m[2] : printable(seg[i])
     /\ m[1] = 0 \/ ~printable(seg[m[1]])
     /\ m[2] = Len(seg) \/ ~printable(seg[m[2] + 1])}

\* the number of (printable, 0x00) pairs that start at offset i
RECURSIVE wide_pairs(_, _)
wide_pairs(seg, i) ==
  IF i + 2 <= Len(seg) /\ printable(seg[i + 1]) /\ seg[i + 2] = 0
    THEN 1 + wide_pairs(seg, i + 2)
    ELSE 0

\* re.finditer(rb"(?:[\x20-\x7E]\x00){5,}", seg) from offset i on
RECURSIVE wide_runs(_, _)
wide_runs(seg, i) ==
  IF i >= Len(seg) THEN {}
  ELSE LET k == wide_pairs(seg, i)
       IN  IF k >= 5 THEN {<<i, i + 2 * k>>} \cup wide_runs(seg, i + 2 * k)
           ELSE wide_runs(seg, i + 1)

\* fallback_redact: <<buf, red>>
fallback_redact(buf) ==
  LET hit1 == {m \in ascii_runs(buf) :
                 LET text == decode_cp949(Slice(buf, m[1], m[2]))
                 IN  /\ strip(text) # <<>>
                     /\ find_sensitive_spans(normalization_text(text)) # {}}
      hit2 == {m \in wide_runs(buf, 0) :
                 LET text == decode_utf16le(Slice(buf, m[1], m[2]))
                 IN  /\ strip(text) # <<>>
                     /\ find_sensitive_spans(normalization_text(text)) # {}}
  IN  <<[i \in 1..Len(buf) |->
           IF \E m \in hit2 : m[1] < i /\ i <= m[2]
             THEN LET m == CHOOSE m \in hit2 : m[1] < i /\ i <= m[2]
                  IN  IF (i - m[1]) % 2 = 1 THEN STAR ELSE 0
           ELSE IF \E m \in hit1 : m[1] < i /\ i <= m[2] THEN STAR
           ELSE buf[i]],
        Cardinality(hit1) + Cardinality(hit2)>>

\* write_back_fallback: chunk i becomes fb_buf[p:p+len(chunk i)]
RECURSIVE write_back_fallback(_, _, _)
write_back_fallback(cs, fb_buf, p) ==
  IF cs = <<>> THEN <<>>
  ELSE <<Slice(fb_buf, p, p + Len(Head(cs)))>>
         \o write_back_fallback(Tail(cs), fb_buf, p + Len(Head(cs)))

\* the fallback and the write back after the while loop
scan_after_loop(buf, cc, r) ==
  LET fb == fallback_redact(Flatten(r[1]))
      cs == IF r[2] = 0 /\ fb[2] > 0
              THEN write_back_fallback(r[1], fb[1], 0)
              ELSE r[1]
  IN  <<write_back_loop(buf, Flatten(cs), cc[2], 0),
        IF r[2] = 0 THEN fb[2] ELSE r[2], r[3]>>

\* scan_and_redact_payload(wb, payload_off, ...): <<wb, red, parsed>>
scan_and_redact_payload(buf, payload_off) ==
  CHOOSE out \in
    {IF cc[1] = <<>> THEN <<buf, 0, <<>>>>
     ELSE CHOOSE o \in {scan_after_loop(buf, cc, r) :
                          r \in {scan_loop(cc[1], 0, 0, <<>>)}} : TRUE :
       cc \in {collect_continue_chuncks(buf, payload_off - 4)}} : TRUE

\* redact_biff_stream reaches a string record with length > 0 and hands it
\* to scan_and_redact_payload
Call_scan_and_redact_payload ==
  /\ xl_pc = "start"
  /\ le16(xl_wb, 0) = OP_TEXT /\ le16(xl_wb, 2) > 0
  /\ LET r == scan_and_redact_payload(xl_wb, 4)
     IN  xl_out' = r[1] /\ xl_red' = r[2] /\ xl_parsed' = r[3]
  /\ xl_pc' = "done"
  /\ UNCHANGED <<xl_wb, notXl>>

InitXl ==
  /\ IdleButXl
  /\ \E p \in SeqsUpTo(XlBytes, MaxText), n1 \in 1..MaxText,
        c \in BOOLEAN, cut \in 0..MaxTrunc :
       /\ n1 <= Len(p)
       /\ ~c => n1 = Len(p)
       /\ LET b == XlRecord(OP_TEXT, SubSeq(p, 1, n1))
                     \o (IF c THEN XlRecord(CONTINUE, SubSeq(p, n1 + 1, Len(p)))
                              ELSE <<>>)
          IN  xl_wb = SubSeq(b, 1, Len(b) - cut)
  /\ xl_out = <<>> /\ xl_parsed = <<>> /\ xl_red = 0
  /\ xl_pc = "start"

NextXl == Call_scan_and_redact_payload

SpecXl == InitXl /\ [][NextXl]_vars

\* 0-based workbook offset of chunk position q
WbOffset(cs, sg, q) ==
  LET at == fChunks_locate(cs, 0, q)
  IN  sg[at[1] + 1][1] + at[2]

\* the chunks and segments of the record before the call
XlChunks == collect_continue_chuncks(xl_wb, 0)

\* workbook offsets of the text bytes of the strings the scan parsed
XlTextOffsets ==
  {WbOffset(XlChunks[1], XlChunks[2], q) :
     q \in UNION {t[2]..(t[3] - 1) : t \in {xl_parsed[k] : k \in DOMAIN xl_parsed}}}

\* workbook offsets of cch, flags, cRun and cbExtRst of the strings parsed
XlHeaderOffsets ==
  {WbOffset(XlChunks[1], XlChunks[2], q) :
     q \in UNION {t[1]..(t[2] - 1) : t \in {xl_parsed[k] : k \in DOMAIN xl_parsed}}}

XlChanged == {i \in 0..(Len(xl_wb) - 1) : xl_out[i + 1] # xl_wb[i + 1]}

\* C11: after scan_and_redact_payload the buffer has its length, every changed
\* byte lies in the text range of a parsed XLUCS string, and no cch, flags,
\* cRun or cbExtRst byte of a parsed string changed
C11_OnlyTextBytesChange ==
  xl_pc = "done" =>
    /\ Len(xl_out) = Len(xl_wb)
    /\ XlChanged \subseteq XlTextOffsets
    /\ XlChanged \cap XlHeaderOffsets = {}

\* ------------------------------------------ sst_replacer: redact_in_sst

\* most strings in the SST record, longest declared cch, most trailing bytes
\* of the last string that lie beyond the SST record's payload
MaxStrings == 2
MaxCch == 2
MaxShort == 2

SST == 252

\* the for loop over the strings of one SST record, k iterations left:
\* <<status, new_wb, hits>>
RECURSIVE sst_strings(_, _, _, _, _, _, _, _)
sst_strings(payload, length, payload_off, p, k, new_wb, old, hits) ==
  IF k = 0 \/ p + 3 > length THEN <<"ok", new_wb, hits>>
  ELSE IF Len(Slice(payload, p, p + 2)) < 2 \/ ~(p + 2 < Len(payload))
    THEN <<"raise", new_wb, hits>>
  ELSE
    LET cch == le16(payload, p)
        option == payload[p + 3]
        fHigh == option % 2
        fExt == (option \div 4) % 2
        fRich == (option \div 8) % 2
        p_rich == IF fRich = 1 THEN p + 5 ELSE p + 3
        p_text == IF fExt = 1 THEN p_rich + 4 ELSE p_rich
        short == \/ fRich = 1 /\ Len(Slice(payload, p + 3, p + 5)) < 2
                 \/ fExt = 1 /\ Len(Slice(payload, p_rich, p_rich + 4)) < 4
    IN  IF short THEN <<"raise", new_wb, hits>>
        ELSE
          LET cRun == IF fRich = 1 THEN le16(payload, p + 3) ELSE 0
              cbExtRst == IF fExt = 1 THEN unpack_I(payload, p_rich) ELSE 0
              nbytes == cch * (IF fHigh = 1 THEN 2 ELSE 1)
              raw == Slice(payload, p_text, p_text + nbytes)
              p_end == p_text + nbytes
              text == IF fHigh = 1 THEN decode_utf16le(raw)
                      ELSE decode_cp949(raw)
              patched ==
                ljust_star(
                  Slice(encode(Repeat(STAR, Len(text)),
                               IF fHigh = 1 THEN "utf-16le" ELSE "cp949")[2],
                        0, Len(raw)),
                  Len(raw))
              lo == payload_off + p_end - Len(raw)
              hi == payload_off + p_end
          IN  sst_strings(payload, length, payload_off,
                          p_end + cRun * 4 + cbExtRst, k - 1,
                          IF text = old THEN SliceAssign(new_wb, lo, hi, patched)
                                        ELSE new_wb,
                          old,
                          IF text = old
                            THEN Append(hits, <<payload_off + p_text,
                                                payload_off + p_text + Len(raw)>>)
                            ELSE hits)

\* the while off + 4 <= n loop over the records: <<status, new_wb, hits>>
RECURSIVE sst_records(_, _, _, _, _)
sst_records(buf, off, new_wb, old, hits) ==
  IF ~(off + 4 <= Len(buf)) THEN <<"ok", new_wb, hits>>
  ELSE LET opcode == le16(buf, off)
           length == le16(buf, off + 2)
           payload_off == off + 4
           payload == Slice(buf, payload_off, payload_off + length)
       IN  IF opcode # SST
             THEN sst_records(buf, payload_off + length, new_wb, old, hits)
           ELSE IF Len(payload) < 8 THEN <<"ok", new_wb, hits>>
           ELSE LET r == sst_strings(payload, length, payload_off, 8,
                                     unpack_I(payload, 4), new_wb, old, hits)
                IN  IF r[1] = "raise" THEN r
                    ELSE sst_records(buf, payload_off + length, r[2], old, r[3])

redact_in_sst ==
  /\ sst_pc = "start"
  /\ LET r == sst_records(sst_wb, 0, sst_wb, sst_old, <<>>)
     IN  IF r[1] = "raise"
           THEN sst_pc' = "raised" /\ UNCHANGED <<sst_out, sst_hits>>
           ELSE sst_pc' = "returned" /\ sst_out' = r[2] /\ sst_hits' = r[3]
  /\ UNCHANGED <<sst_wb, sst_old, notSst>>

\* one XLUnicodeRichExtendedString of the SST: cch, flags, [cRun = 1], text,
\* [one 4-byte formatting run]
SstString(cch, option, chars) ==
  <<cch, 0, option>>
    \o (IF option = 8 THEN <<1, 0>> ELSE <<>>)
    \o (IF option = 1 THEN Flatten([i \in 1..cch |-> <<chars[i], 0>>])
                      ELSE SubSeq(chars, 1, cch))
    \o (IF option = 8 THEN <<7, 7, 7, 7>> ELSE <<>>)

\* the strings: 8-bit, 16-bit or 8-bit with a formatting run, over "A", "B"
SstStrings ==
  {SstString(cch, option, chars) :
     cch \in 0..MaxCch, option \in {0, 1, 8}, chars \in [1..MaxCch -> {65, 66}]}

InitSst ==
  /\ IdleButSst
  /\ \E strs \in SeqsUpTo(SstStrings, MaxStrings), cst \in 0..MaxStrings,
        short \in 0..MaxShort, tail \in {"none", "continue", "eof"},
        cut \in 0..MaxTrunc :
       LET body == <<cst, 0, 0, 0, cst, 0, 0, 0>> \o Flatten(strs)
           keep == Len(body) - Min(short, Len(body) - 8)
           b == XlRecord(SST, SubSeq(body, 1, keep))
                  \o (IF tail = "continue"
                        THEN XlRecord(CONTINUE, SubSeq(body, keep + 1, Len(body)))
                        ELSE <<>>)
                  \o (IF tail = "none" THEN <<>> ELSE XlRecord(10, <<>>))
       IN  sst_wb = SubSeq(b, 1, Len(b) - cut)
  /\ sst_old \in {<<>>, <<65>>, <<65, 66>>}
  /\ sst_out = <<>> /\ sst_hits = <<>>
  /\ sst_pc = "start"

NextSst == redact_in_sst

SpecSst == InitSst /\ [][NextSst]_vars

\* workbook offsets inside the raw text of a matching string
SstTextOffsets ==
  UNION {h[1]..(h[2] - 1) : h \in {sst_hits[k] : k \in DOMAIN sst_hits}}

\* C12: redact_in_sst returns for every buffer; the returned buffer has the
\* length of wb, differs from wb only inside the text of the strings that
\* equal old, and every byte of such a text that is not the high byte of a
\* 16-bit character is '*'
C12_SstPreserved ==
  /\ sst_pc # "raised"
  /\ sst_pc = "returned" =>
       /\ Len(sst_out) = Len(sst_wb)
       /\ \A i \in 0..(Len(sst_wb) - 1) :
            IF i \in SstTextOffsets
              THEN sst_out[i + 1] \in {STAR, 0}
              ELSE sst_out[i + 1] = sst_wb[i + 1]

\* ------------------------------------------ record_parser: parse_records

\* most records of a well-formed buffer, largest declared size of one, most
\* bytes missing from its end, and the longest buffer of arbitrary bytes
MaxParse == 2
MaxRecSize == 2
MaxRecCut == 5
MaxGarbage == 4

\* struct.unpack("<I", ...)[0] of the 4 bytes at off, kept as its four
\* little-endian bytes: the value itself can exceed the 32-bit signed range
unpack_u32(b, off) == SubSeq(b, off + 1, off + 4)

\* bit k of the u32; the bits from 32 on are 0
bit(h, k) == IF k > 31 THEN 0 ELSE (h[(k \div 8) + 1] \div (2 ^ (k % 8))) % 2

\* bits(v, o, n) == (v >> o) & ((1 << n) - 1), on the bytes of v
RECURSIVE bits_skew(_, _, _)
bits_skew(h, o, n) ==
  IF n = 0 THEN 0 ELSE bit(h, o + 1) + 2 * bits_skew(h, o + 1, n - 1)
RECURSIVE bits(_, _, _)
bits(h, o, n) ==
  IF n = 0 THEN 0 ELSE bit(h, o) + 2 * bits(h, o + 1, n - 1)

\* the real size read after a 0xFFF size field; a value of 2^31 or more is
\* beyond every buffer length and is represented by 2^30
ext_size_skew(b, off) ==
  IF b[off + 4] >= 64 THEN 1073741824 ELSE unpack_I(b, off) + 1
ext_size(b, off) ==
  IF b[off + 4] >= 64 THEN 1073741824 ELSE unpack_I(b, off)

\* the body of the while loop when it appends a record
parse_record ==
  /\ rec_pc = "loop"
  /\ rec_off < Len(rec_raw)
  /\ ~(rec_off + 4 > Len(rec_raw))
  /\ LET n == Len(rec_raw)
         h == unpack_u32(rec_raw, rec_off)
         tag == bits(h, 0, 10)
         lvl == bits(h, 10, 10)
         sz0 == bits(h, 20, 12)
         off1 == IF sz0 = 4095 THEN rec_off + 8 ELSE rec_off + 4
     IN  /\ sz0 = 4095 => ~(rec_off + 4 + 4 > n)
         /\ LET sz == IF sz0 = 4095 THEN ext_size(rec_raw, rec_off + 4) ELSE sz0
                hi == IF off1 + sz > n THEN n ELSE off1 + sz
            IN  /\ rec_recs' = Append(rec_recs, [tag |-> tag, lvl |-> lvl, sz |-> sz,
                                         hdr |-> rec_off, lo |-> off1,
                                         hi |-> hi,
                                         data |-> Slice(rec_raw, off1, hi)])
                /\ rec_off' = hi
  /\ UNCHANGED <<rec_raw, rec_pc, notRec>>

\* the loop ends: off reached n, or one of the two breaks
parse_return ==
  /\ rec_pc = "loop"
  /\ LET n == Len(rec_raw)
     IN  \/ ~(rec_off < n)
         \/ rec_off + 4 > n
         \/ /\ rec_off + 4 <= n
            /\ bits(unpack_u32(rec_raw, rec_off), 20, 12) = 4095
            /\ rec_off + 4 + 4 > n
  /\ rec_pc' = "returned"
  /\ UNCHANGED <<rec_raw, rec_off, rec_recs, notRec>>

\* a record header word as its four little-endian bytes
RecHeader(tag, lvl, sz) ==
  <<tag % 256, (tag \div 256) + 4 * (lvl % 64),
    (lvl \div 64) + 16 * (sz % 16), sz \div 16>>

\* a record with sz payload bytes, its size in the header or after 0xFFF
RecBytes(tag, lvl, sz, ext, base) ==
  (IF ext THEN RecHeader(tag, lvl, 4095) \o <<sz, 0, 0, 0>>
          ELSE RecHeader(tag, lvl, sz))
    \o [i \in 1..sz |-> 100 + base + i]

RECURSIVE RecStream(_, _)
RecStream(rs, base) ==
  IF rs = <<>> THEN <<>>
  ELSE LET r == RecBytes(Head(rs)[1], Head(rs)[2], Head(rs)[3], Head(rs)[4], base)
       IN  r \o RecStream(Tail(rs), base + Len(r))

\* the header word 0x04310043 followed by 0x43 payload bytes
RecExample == <<67, 0, 49, 4>> \o [i \in 1..67 |-> 0]

\* the buffers parsed: well-formed record streams with some bytes missing
\* from the end, short buffers of arbitrary bytes, and the example
RecSet ==
  {LET b == RecStream(rs, 0) IN SubSeq(b, 1, Len(b) - Min(cut, Len(b))) :
     rs \in SeqsUpTo({<<h[1], h[2], sz, e>> :
                         h \in {<<66, 0>>, <<TAG_PARA_TEXT, 64>>},
                         sz \in 0..MaxRecSize, e \in BOOLEAN},
                     MaxParse),
     cut \in 0..MaxRecCut}
    \cup SeqsUpTo({0, 16, 240, 255}, MaxGarbage)
    \cup {RecExample}

InitRec ==
  /\ IdleButRec
  /\ rec_raw \in RecSet
  /\ rec_off = 0 /\ rec_recs = <<>>
  /\ rec_pc = "loop"

NextRec == parse_record \/ parse_return

SpecRec == InitRec /\ [][NextRec]_vars

\* the scheduler of the loop is the interpreter: an iteration that can run
\* does run
SpecRecLive == SpecRec /\ WF_vars(NextRec)

\* C13 as stated: the record parsed from the header word 0x04310043 has
\* tag 67, level 0 and size 0x43
C13_LevelZero ==
  \A k \in DOMAIN rec_recs :
    unpack_u32(rec_raw, rec_recs[k].hdr) = <<67, 0, 49, 4>> =>
      rec_recs[k].tag = 67 /\ rec_recs[k].lvl = 0 /\ rec_recs[k].sz = 67

\* C13: the record parsed from the header word 0x04310043 has tag 67,
\* level 64 and size 0x43 (bits 10..19 of the word hold 0x040)
C13_Decoded ==
  \A k \in DOMAIN rec_recs :
    unpack_u32(rec_raw, rec_recs[k].hdr) = <<67, 0, 49, 4>> =>
      rec_recs[k].tag = 67 /\ rec_recs[k].lvl = 64 /\ rec_recs[k].sz = 67

C13_Witness ==
  /\ rec_pc = "returned"
  /\ rec_raw = RecExample
  /\ Len(rec_recs) = 1 /\ rec_recs[1].hdr = 0 /\ Len(rec_recs[1].data) = 67

\* ------------------------------------------------------------ doc_module

\* most characters of one piece, and the extra bytes in front of the CLX in
\* the Table stream
MaxPieceChars == 2
MaxClxPad == 1

\* offsets of fcClx and lcbClx in the FIB, and of the FIB flags
FC_CLX == 418
LCB_CLX == 422
FIB_FLAGS == 10

\* struct.pack("<I", v)
pack_I(v) ==
  <<v % 256, (v \div 256) % 256, (v \div 65536) % 256, v \div 16777216>>

\* an optional value: None, or the bytes
None == <<FALSE, <<>>>>
Some(b) == <<TRUE, b>>

\* _get_table_stream_name: <<status, name>>; le16(word_data, 0x000A) raises
\* struct.error on a WordDocument stream of fewer than 12 bytes
get_table_stream_name(word_data, file) ==
  IF Len(word_data) < FIB_FLAGS + 2 THEN <<"raise", "">>
  ELSE LET fWhichTblStm == (le16(word_data, FIB_FLAGS) \div 512) % 2 = 1
           tbl_name == IF fWhichTblStm /\ file.t1[1] THEN "1Table"
                       ELSE "0Table"
           there == IF tbl_name = "1Table" THEN file.t1[1] ELSE file.t0[1]
       IN  <<"ok", IF there THEN tbl_name ELSE "">>

\* _read_word_and_table_streams: <<word_data, table_data>>, each optional
read_word_and_table_streams(file) ==
  IF ~file.ole \/ ~file.word[1] THEN <<None, None>>
  ELSE LET word_data == file.word[2]
           nm == get_table_stream_name(word_data, file)
       IN  IF nm[1] = "raise" THEN <<None, None>>
           ELSE IF nm[2] = "" THEN <<Some(word_data), None>>
           ELSE <<Some(word_data),
                  Some(IF nm[2] = "1Table" THEN file.t1[2] ELSE file.t0[2])>>

\* "not x" of an optional bytes value
falsy(x) == ~x[1] \/ x[2] = <<>>

\* _get_clx_data without its range test
get_clx_data_skew(word_data, table_data) ==
  IF Len(word_data) < FC_CLX + 4 \/ Len(word_data) < LCB_CLX + 4
    THEN <<"raise", None>>
  ELSE LET fcClx == unpack_I(word_data, FC_CLX)
           lcbClx == unpack_I(word_data, LCB_CLX)
       IN  <<"ok", Some(Slice(table_data, fcClx, fcClx + lcbClx))>>
\* _get_clx_data: <<status, clx>>, clx optional; le32 raises struct.error
\* when the WordDocument stream ends before the field does
get_clx_data(word_data, table_data) ==
  IF Len(word_data) < FC_CLX + 4 \/ Len(word_data) < LCB_CLX + 4
    THEN <<"raise", None>>
  ELSE LET fcClx == unpack_I(word_data, FC_CLX)
           lcbClx == unpack_I(word_data, LCB_CLX)
       IN  IF fcClx + lcbClx > Len(table_data) THEN <<"ok", None>>
           ELSE <<"ok", Some(Slice(table_data, fcClx, fcClx + lcbClx))>>

\* _extract_plcpcd, from offset i on
RECURSIVE extract_plcpcd(_, _)
extract_plcpcd(clx, i) ==
  IF ~(i < Len(clx)) THEN <<>>
  ELSE LET tag == clx[i + 1]
       IN  IF tag = 1
             THEN IF i + 1 + 2 > Len(clx) THEN <<>>
                  ELSE extract_plcpcd(clx, i + 1 + 2 + le16(clx, i + 1))
           ELSE IF tag = 2
             THEN IF i + 1 + 4 > Len(clx) THEN <<>>
                  ELSE Slice(clx, i + 5, i + 5 + unpack_I(clx, i + 1))
           ELSE <<>>

\* _parse_plcpcd: the pieces
parse_plcpcd(plcpcd) ==
  LET size == Len(plcpcd)
      n == (size - 4) \div 12
      pcd_off == 4 * (n + 1)
  IN  IF size < 4 \/ (size - 4) % 12 # 0 THEN <<>>
      ELSE [k \in 1..n |->
              LET fc_raw == unpack_I(plcpcd, pcd_off + 8 * (k - 1) + 2)
                  fCompressed == (fc_raw \div 1073741824) % 2 = 1
                  char_count == unpack_I(plcpcd, 4 * k)
                                  - unpack_I(plcpcd, 4 * (k - 1))
              IN  [fc |-> fc_raw % 1073741824,
                   byte_count |-> IF fCompressed THEN char_count
                                 ELSE char_count * 2,
                   fCompressed |-> fCompressed]]

\* chunk.decode("cp1252", errors="ignore"): ASCII bytes are their own
\* characters, the bytes from 0x80 on characters outside ASCII
decode_cp1252(b) == [i \in 1..Len(b) |-> IF b[i] < 128 THEN b[i] ELSE 8000 + b[i]]

\* _decode_piece
decode_piece(chunk, fCompressed) ==
  IF fCompressed THEN decode_cp1252(chunk) ELSE decode_utf16le(chunk)

\* the for loop of extract_text from piece k on: the decoded texts
RECURSIVE piece_texts(_, _, _)
piece_texts(word_data, pieces, k) ==
  IF k > Len(pieces) THEN <<>>
  ELSE LET start == pieces[k].fc
           end == pieces[k].fc + pieces[k].byte_count
       IN  (IF end > Len(word_data) THEN <<>>
            ELSE <<decode_piece(Slice(word_data, start, end),
                                pieces[k].fCompressed)>>)
             \o piece_texts(word_data, pieces, k + 1)

\* "\n".join(texts)
RECURSIVE join_nl(_)
join_nl(ts) ==
  IF ts = <<>> THEN <<>>
  ELSE IF Len(ts) = 1 THEN ts[1]
  ELSE ts[1] \o <<10>> \o join_nl(Tail(ts))

\* normalize_text: whitespace runs collapse to one space
normalize_text(text) == normalization_text(text)

\* extract_text: full_text; every exception ends in the empty text
extract_text(file) ==
  LET rd == read_word_and_table_streams(file)
  IN  IF falsy(rd[1]) \/ falsy(rd[2]) THEN <<>>
      ELSE LET c == get_clx_data(rd[1][2], rd[2][2])
           IN  IF c[1] = "raise" \/ falsy(c[2]) THEN <<>>
               ELSE LET plcpcd == extract_plcpcd(c[2][2], 0)
                    IN  IF plcpcd = <<>> THEN <<>>
                        ELSE normalize_text(join_nl(
                               piece_texts(rd[1][2], parse_plcpcd(plcpcd), 1)))

\* the while True loop of replace_text for one target in one piece
RECURSIVE replace_in_piece(_, _, _, _, _)
replace_in_piece(replaced, original_text, target_text, p, search_start) ==
  LET idx == find(original_text, target_text, search_start)
  IN  IF idx = -1 THEN replaced
      ELSE LET bytes_per_char == IF p.fCompressed THEN 1 ELSE 2
               byte_start == p.fc + idx * bytes_per_char
               byte_len == Len(target_text) * bytes_per_char
               replacement_bytes ==
                 IF p.fCompressed THEN Repeat(STAR, byte_len)
                 ELSE [i \in 1..(2 * (byte_len \div 2)) |->
                         IF i % 2 = 1 THEN STAR ELSE 0]
           IN  replace_in_piece(
                 SliceAssign(replaced, byte_start, byte_start + byte_len,
                             replacement_bytes),
                 original_text, target_text, p, idx + Len(target_text))

\* for p in pieces, from piece k on
RECURSIVE replace_pieces(_, _, _, _, _)
replace_pieces(replaced, word_data, pieces, k, target_text) ==
  IF k > Len(pieces) THEN replaced
  ELSE LET end_pos == pieces[k].fc + pieces[k].byte_count
       IN  replace_pieces(
             IF end_pos > Len(word_data) THEN replaced
             ELSE replace_in_piece(
                    replaced,
                    decode_piece(Slice(word_data, pieces[k].fc, end_pos),
                                 pieces[k].fCompressed),
                    target_text, pieces[k], 0),
             word_data, pieces, k + 1, target_text)

\* for target_text in targets
RECURSIVE replace_targets(_, _, _, _)
replace_targets(replaced, word_data, pieces, targets) ==
  IF targets = <<>> THEN replaced
  ELSE replace_targets(
         replace_pieces(replaced, word_data, pieces, 1, Head(targets)),
         word_data, pieces, Tail(targets))

\* _create_new_ole_file: the file with its WordDocument stream rewritten,
\* the original file when the stream is missing or the lengths differ
create_new_ole_file(file, new_word_data) ==
  IF ~file.ole \/ ~file.word[1] THEN file
  ELSE IF Len(file.word[2]) # Len(new_word_data) THEN file
  ELSE [file EXCEPT !.word = Some(new_word_data)]

\* replace_text: the returned file; every exception returns file_bytes
replace_text(file, targets) ==
  LET rd == read_word_and_table_streams(file)
  IN  IF falsy(rd[1]) \/ falsy(rd[2]) THEN file
      ELSE LET c == get_clx_data(rd[1][2], rd[2][2])
           IN  IF c[1] = "raise" \/ falsy(c[2]) THEN file
               ELSE LET plcpcd == extract_plcpcd(c[2][2], 0)
                    IN  IF plcpcd = <<>> THEN file
                        ELSE create_new_ole_file(
                               file,
                               replace_targets(rd[1][2], rd[1][2],
                                               parse_plcpcd(plcpcd), targets))

\* s.split("*"), the non-empty parts
RECURSIVE split_star(_, _)
split_star(str, cur) ==
  IF str = <<>> THEN (IF cur = <<>> THEN <<>> ELSE <<cur>>)
  ELSE IF Head(str) = STAR
    THEN (IF cur = <<>> THEN <<>> ELSE <<cur>>) \o split_star(Tail(str), <<>>)
  ELSE split_star(Tail(str), Append(cur, Head(str)))

\* redact in doc_module: the returned file
doc_redact(file) ==
  LET normalized_text == extract_text(file)
      redacted_text == apply_redaction_rules(normalized_text)
      targets == SelectSeq(split_star(redacted_text, <<>>),
                           LAMBDA m : find(normalized_text, m, 0) # -1)
  IN  IF normalized_text = <<>> THEN file
      ELSE IF redacted_text = normalized_text THEN file
      ELSE replace_text(file, targets)

Call_extract_text ==
  /\ doc_pc = "start" /\ doc_fn = "extract_text"
  /\ doc_text' = extract_text(doc_file)
  /\ doc_pc' = "returned"
  /\ UNCHANGED <<doc_file, doc_targets, doc_fn, doc_out, notDoc>>

Call_replace_text ==
  /\ doc_pc = "start" /\ doc_fn = "replace_text"
  /\ doc_out' = replace_text(doc_file, doc_targets)
  /\ doc_pc' = "returned"
  /\ UNCHANGED <<doc_file, doc_targets, doc_fn, doc_text, notDoc>>

Call_doc_redact ==
  /\ doc_pc = "start" /\ doc_fn = "redact"
  /\ doc_out' = doc_redact(doc_file)
  /\ doc_pc' = "returned"
  /\ UNCHANGED <<doc_file, doc_targets, doc_fn, doc_text, notDoc>>

\* a FIB: the flags word at 0x0A, fcClx at 0x01A2, lcbClx at 0x01A6
Fib(flags, fcClx, lcbClx) ==
  [i \in 1..(LCB_CLX + 4) |->
     IF i = FIB_FLAGS + 1 THEN flags % 256
     ELSE IF i = FIB_FLAGS + 2 THEN flags \div 256
     ELSE IF i > FC_CLX /\ i <= FC_CLX + 4 THEN pack_I(fcClx)[i - FC_CLX]
     ELSE IF i > LCB_CLX THEN pack_I(lcbClx)[i - LCB_CLX]
     ELSE 0]

\* the text bytes of a piece
PieceBytes(chars, fCompressed) ==
  IF fCompressed THEN chars
  ELSE [i \in 1..(2 * Len(chars)) |->
          IF i % 2 = 1 THEN chars[(i + 1) \div 2] ELSE 0]

\* a PlcPcd of two pieces stored one after the other from offset fc on
PlcPcd2(fc, t1, c1, t2, c2) ==
  LET fc2 == fc + Len(PieceBytes(t1, c1))
      Pcd(f, c) == <<0, 0>> \o pack_I(f + (IF c THEN 1073741824 ELSE 0))
                     \o <<0, 0>>
  IN  pack_I(0) \o pack_I(Len(t1)) \o pack_I(Len(t1) + Len(t2))
        \o Pcd(fc, c1) \o Pcd(fc2, c2)

\* a CLX: an optional Prc, then the Pcdt holding the PlcPcd
Clx(prc, plcpcd) ==
  (IF prc THEN <<1, 1, 0, 9>> ELSE <<>>) \o <<2>> \o pack_I(Len(plcpcd))
    \o plcpcd

\* a .doc file with two pieces of text after the FIB
DocFile(flags, fcClx, lcbClx, wlen, pad, has1, prc, t1, c1, t2, c2) ==
  LET clx == Clx(prc, PlcPcd2(LCB_CLX + 4, t1, c1, t2, c2))
      word == Fib(flags, fcClx, IF lcbClx < 0 THEN Len(clx) ELSE lcbClx)
                \o PieceBytes(t1, c1) \o PieceBytes(t2, c2)
      table == [i \in 1..pad |-> 0] \o clx
  IN  [ole |-> TRUE,
       word |-> Some(SubSeq(word, 1, Min(wlen, Len(word)))),
       t0 |-> Some(table),
       t1 |-> IF has1 THEN Some(table) ELSE None]

\* the texts of a piece: one to MaxPieceChars characters, 'A' or '9'
PieceTexts == SeqsUpTo({65, 57}, MaxPieceChars) \ {<<>>}

InitDoc ==
  /\ IdleButDoc
  /\ \/ \E flags \in {0, 512}, fcClx \in {0, 1, 60, 101},
           lcbClx \in {-1, 0, 100}, wlen \in {0, 11, 12, 421, 425, 1000},
           pad \in 0..MaxClxPad, has1 \in BOOLEAN :
          /\ doc_file = DocFile(flags, fcClx, lcbClx, wlen, pad, has1, FALSE,
                                <<65, 57>>, TRUE, <<57>>, FALSE)
          /\ doc_targets = <<<<57>>>>
     \/ \E prc \in BOOLEAN, t1 \in PieceTexts, c1 \in BOOLEAN,
           t2 \in PieceTexts, c2 \in BOOLEAN :
          /\ doc_file = DocFile(0, 0, -1, 1000, 0, FALSE, prc, t1, c1, t2, c2)
          /\ doc_targets \in {<<t>> : t \in PieceTexts}
  /\ doc_fn \in {"extract_text", "replace_text", "redact"}
  /\ doc_pc = "start"
  /\ doc_text = <<>> /\ doc_out = <<>>

NextDoc == Call_extract_text \/ Call_replace_text \/ Call_doc_redact

SpecDoc == InitDoc /\ [][NextDoc]_vars

\* the WordDocument stream and the Table stream extract_text works on
DocWord == doc_file.word[2]
DocTable == read_word_and_table_streams(doc_file)[2][2]

\* the FIB fields do not fit in the WordDocument stream, or the CLX range
\* ends after the Table stream does
DocClxOutside ==
  \/ Len(DocWord) < LCB_CLX + 4
  \/ /\ read_word_and_table_streams(doc_file)[2][1]
     /\ unpack_I(DocWord, FC_CLX) + unpack_I(DocWord, LCB_CLX) > Len(DocTable)

\* C14: when the CLX range lies outside the Table stream, or the WordDocument
\* stream is too short for fcClx/lcbClx, extract_text returns the empty text
\* and replace_text and redact return the file they were given
C14_ClxFailsClosed ==
  (doc_pc = "returned" /\ DocClxOutside) =>
    /\ doc_fn = "extract_text" => doc_text = <<>>
    /\ doc_fn \in {"replace_text", "redact"} => doc_out = doc_file

\* a full FIB whose fcClx points past the end of the Table stream
C14_Witness ==
  /\ doc_pc = "returned" /\ doc_fn = "extract_text"
  /\ Len(DocWord) >= LCB_CLX + 4
  /\ unpack_I(DocWord, FC_CLX) > Len(DocTable)
  /\ doc_text = <<>>

\* ------------------ ole_fat_global under two interleaved invocations

\* the two invocations
Calls == {1, 2}

\* the bytes of the container of call t
CallBytes(t, n) == [i \in 1..n |-> 100 * t + i]

\* _read_big_chain_bytes on the FAT ft, before the final out[:need]
RECURSIVE big_chain_bytes(_, _, _, _, _)
big_chain_bytes(raw, ft, sect, out, need) ==
  IF sect = -1 \/ sect = ENDOFCHAIN \/ Len(out) >= need THEN out
  ELSE IF sect >= Len(ft) THEN out
  ELSE LET off == (sect + 1) * SectorSize
       IN  big_chain_bytes(raw, ft, ft[sect + 1],
                           out \o Slice(raw, off, off + SectorSize), need)

\* _read_mini_chain_bytes on the MiniFAT mf, hopping along g, the value of
\* ole_fat_global; <<FALSE, _>> when the while loop never ends
RECURSIVE mini_chain_bytes(_, _, _, _, _, _, _, _)
mini_chain_bytes(raw, mf, g, root_start, sect, out, need, idle) ==
  IF sect = -1 \/ sect = ENDOFCHAIN \/ Len(out) >= need THEN <<TRUE, out>>
  ELSE IF idle > Len(mf) THEN <<FALSE, out>>
  ELSE LET mini_off == sect * MiniSectorSize
           block_idx == mini_off \div SectorSize
           within == mini_off % SectorSize
           big == mini_big(g, root_start, 0, block_idx)
       IN  IF big = -1 \/ big = ENDOFCHAIN \/ big >= Len(g) THEN <<TRUE, out>>
           ELSE LET file_off == (big + 1) * SectorSize + within
                    got == Slice(raw, file_off, file_off + MiniSectorSize)
                    nxt == IF sect < Len(mf) THEN mf[sect + 1] ELSE -1
                IN  mini_chain_bytes(raw, mf, g, root_start, nxt, out \o got,
                                     need, IF got = <<>> THEN idle + 1 ELSE 0)

\* one sample of the MiniFAT scan: <<ended, out[:need]>>
mini_sample(d, g, cand) ==
  LET r == mini_chain_bytes(d.raw, d.minifat, g, d.root_start, cand, <<>>,
                            Len(d.head), 0)
  IN  <<r[1], Slice(r[2], 0, Len(d.head))>>

\* the BigFAT scan of _bruteforce_locate_start
big_scan(d) ==
  LET bhit == {c \in 0..(Len(d.fat) - 1) :
                 Slice(big_chain_bytes(d.raw, d.fat, c, <<>>, Len(d.head)),
                       0, Len(d.head)) = d.head}
  IN  IF bhit = {} THEN <<"none", 0, "">>
      ELSE <<"found", CHOOSE c \in bhit : \A e \in bhit : c <= e,
             "BigFAT(brute)">>

\* _bruteforce_locate_start run alone on d, MiniFAT scan from cand on
RECURSIVE locate_alone(_, _)
locate_alone(d, cand) ==
  IF cand >= Len(d.minifat) THEN big_scan(d)
  ELSE LET sample == mini_sample(d, d.fat, cand)
       IN  IF ~sample[1] THEN <<"hang", 0, "">>
           ELSE IF sample[2] = d.head THEN <<"found", cand, "MiniFAT(brute)">>
           ELSE locate_alone(d, cand + 1)

\* global ole_fat_global; fat = ole.fat; ole_fat_global = fat
bf_enter(t) ==
  /\ cc_pc[t] = "call"
  /\ ole_fat_global' = cc_doc[t].fat
  /\ cc_pc' = [cc_pc EXCEPT ![t] = "mini"]
  /\ UNCHANGED <<cc_doc, cc_cand, cc_result, notConc>>

\* one iteration of the MiniFAT for loop: a call of _read_mini_chain_bytes
bf_mini(t) ==
  /\ cc_pc[t] = "mini"
  /\ cc_cand[t] < Len(cc_doc[t].minifat)
  /\ LET sample == mini_sample(cc_doc[t], ole_fat_global, cc_cand[t])
     IN  IF ~sample[1]
           THEN /\ cc_pc' = [cc_pc EXCEPT ![t] = "hang"]
                /\ UNCHANGED <<cc_cand, cc_result>>
         ELSE IF sample[2] = cc_doc[t].head
           THEN /\ cc_result' = [cc_result EXCEPT
                                   ![t] = <<"found", cc_cand[t], "MiniFAT(brute)">>]
                /\ cc_pc' = [cc_pc EXCEPT ![t] = "done"]
                /\ UNCHANGED cc_cand
         ELSE /\ cc_cand' = [cc_cand EXCEPT ![t] = @ + 1]
              /\ UNCHANGED <<cc_pc, cc_result>>
  /\ UNCHANGED <<cc_doc, ole_fat_global, notConc>>

\* the MiniFAT scan found nothing: the BigFAT for loop, then the return
bf_big(t) ==
  /\ cc_pc[t] = "mini"
  /\ cc_cand[t] >= Len(cc_doc[t].minifat)
  /\ cc_result' = [cc_result EXCEPT ![t] = big_scan(cc_doc[t])]
  /\ cc_pc' = [cc_pc EXCEPT ![t] = "done"]
  /\ UNCHANGED <<cc_doc, cc_cand, ole_fat_global, notConc>>

\* the streams a container can hold below the cutoff: a stream of size 1 or 2
\* that starts at mini sector start and can be read in full
ConcDocs(t, fats, minifats) ==
  {d \in [raw : {CallBytes(t, (MaxSectors + 1) * SectorSize)},
          fat : fats, minifat : minifats, root_start : 0..(MaxSectors - 1),
          head : SeqsUpTo({100 * t + i : i \in 1..((MaxSectors + 1) * SectorSize)},
                          MiniCutoff - 1)] :
     /\ d.head # <<>>
     /\ \E start \in 0..(Len(d.minifat) - 1) :
          mini_sample(d, d.fat, start) = <<TRUE, d.head>>}

InitConc ==
  /\ IdleButConc
  /\ impl = "none" /\ stream_kind = "none" /\ container = <<>> /\ fat = <<>>
  /\ minifat = <<>> /\ root = [present |-> FALSE, isectStart |-> 0]
  /\ bin_bytes = <<>> /\ de = [start |-> 0, size |-> 0] /\ de_attrs = FALSE
  /\ pc = "idle" /\ s = 0 /\ pos = 0
  /\ new_raw = <<>> /\ w = 0 /\ before = <<>> /\ visited = <<>>
  /\ tbl = "none" /\ start_sector = 0 /\ result = <<>>
  /\ ole_fat_global = <<>>
  /\ \E d1 \in ConcDocs(1, SeqsUpTo(FatValues, MaxSectors) \ {<<>>},
                        SeqsUpTo(FatValues, MaxMiniFat) \ {<<>>}),
        d2 \in ConcDocs(2, SeqsUpTo({ENDOFCHAIN}, MaxSectors) \ {<<>>},
                        SeqsUpTo({ENDOFCHAIN}, MaxMiniFat) \ {<<>>}) :
       cc_doc = <<d1, d2>>
  /\ cc_pc = <<"call", "call">>
  /\ cc_cand = <<0, 0>>
  /\ cc_result = <<<<"none", 0, "">>, <<"none", 0, "">>>>

NextConc == \E t \in Calls : bf_enter(t) \/ bf_mini(t) \/ bf_big(t)

SpecConc == InitConc /\ [][NextConc]_vars

\* C15: a call that interleaves with a call on another container returns
\* what it returns when it runs alone, and does not hang unless it hangs
\* alone
C15_Independent ==
  \A t \in Calls :
    /\ cc_doc # <<>> /\ cc_pc[t] = "done" => cc_result[t] = locate_alone(cc_doc[t], 0)
    /\ cc_doc # <<>> /\ cc_pc[t] = "hang" => locate_alone(cc_doc[t], 0)[1] = "hang"

\* ------------------------------------------------------------ iter_biff_records
\* the generator of doc_chart.py / xls_module.py, one resumption per step

\* the while condition: a whole header is left at off
iter_more_skew(off, n) == off + 3 <= n
iter_more(off, n) == off + 4 <= n

\* struct.unpack_from("<HH", data, off): <<ok, opcode, length>>; struct.error
\* when fewer than 4 bytes are left at off
unpack_from_HH(data, off) ==
  IF off >= 0 /\ off + 4 <= Len(data)
    THEN <<TRUE, le16(data, off), le16(data, off + 2)>>
    ELSE <<FALSE, 0, 0>>

\* the generator is created on a buffer
iter_call ==
  /\ it_pc = "created"
  /\ it_pc' = "running"
  /\ UNCHANGED <<it_data, it_off, it_out, notIter>>

\* one pass of the loop body: the header is unpacked, the payload sliced, the
\* record yielded and off moved past the declared length
iter_yield ==
  /\ it_pc = "running"
  /\ iter_more(it_off, Len(it_data))
  /\ LET h == unpack_from_HH(it_data, it_off)
         off == it_off + 4
     IN  IF ~h[1]
           THEN /\ it_pc' = "raised"
                /\ UNCHANGED <<it_off, it_out>>
           ELSE /\ it_out' = Append(it_out,
                                    [off |-> off - 4, opcode |-> h[2],
                                     length |-> h[3],
                                     payload |-> Slice(it_data, off, off + h[3])])
                /\ it_off' = off + h[3]
                /\ it_pc' = "running"
  /\ UNCHANGED <<it_data, notIter>>

\* the while condition fails: StopIteration
iter_stop ==
  /\ it_pc = "running"
  /\ ~iter_more(it_off, Len(it_data))
  /\ it_pc' = "done"
  /\ UNCHANGED <<it_data, it_off, it_out, notIter>>

InitIter ==
  /\ IdleButIter
  /\ it_data \in BiffSet
  /\ it_off = 0
  /\ it_out = <<>>
  /\ it_pc = "created"

NextIter ==
  \/ iter_call
  \/ iter_yield
  \/ iter_stop

SpecIter == InitIter /\ [][NextIter]_vars

\* the consumer is a for loop: a generator that can be resumed is resumed
SpecIterLive == SpecIter /\ WF_vars(NextIter)

\* what the records yielded so far have to look like
IterYielded ==
  \A k \in DOMAIN it_out :
    LET r == it_out[k]
        n == Len(it_data)
    IN  /\ r.off = (IF k = 1 THEN 0
                    ELSE it_out[k - 1].off + 4 + it_out[k - 1].length)
        /\ k > 1 => r.off > it_out[k - 1].off
        /\ r.off + 4 <= n
        /\ r.opcode = le16(it_data, r.off)
        /\ r.length = le16(it_data, r.off + 2)
        /\ Len(r.payload) = Min(r.length, n - (r.off + 4))
        /\ \A i \in 1..Len(r.payload) : r.payload[i] = it_data[r.off + 4 + i]

\* C16: iter_biff_records never raises, yields its records at strictly
\* increasing header offsets, record k+1 at offset_k + 4 + length_k, with the
\* payload cut to the bytes the buffer has; it stops exactly when fewer than 4
\* bytes are left at its offset, and it stops on every buffer.
C16_IterBiffRecords ==
  /\ [](it_pc # "raised")
  /\ [](IterYielded)
  /\ [](it_pc = "done" =>
          /\ Len(it_data) - it_off < 4
          /\ it_off = (IF it_out = <<>> THEN 0
                       ELSE it_out[Len(it_out)].off + 4
                              + it_out[Len(it_out)].length))
  /\ <>(it_pc = "done")

\* the generator has finished on a buffer with a zero-length record followed
\* by a record whose declared length runs past the end of the buffer
C16_Witness ==
  /\ it_pc = "done"
  /\ Len(it_out) >= 2
  /\ it_out[1].length = 0
  /\ Len(it_out[Len(it_out)].payload) < it_out[Len(it_out)].length

\* the header word of record k, read from the buffer byte by byte
RecWord(k) == [i \in 1..4 |-> rec_raw[rec_recs[k].hdr + i]]
RecSizeField(k) == (RecWord(k)[3] \div 16) + 16 * RecWord(k)[4]

\* the real size of record k: the size field, or the u32 after the header
\* when the field is 0xFFF (2^30 stands for every value from 2^30 on)
RecRealSize(k) ==
  LET o == rec_recs[k].hdr + 4
  IN  IF RecSizeField(k) # 4095 THEN RecSizeField(k)
      ELSE IF rec_raw[o + 4] >= 64 THEN 1073741824
      ELSE rec_raw[o + 1] + 256 * rec_raw[o + 2] + 65536 * rec_raw[o + 3]
             + 16777216 * rec_raw[o + 4]

RecParsed ==
  \A k \in DOMAIN rec_recs :
    LET r == rec_recs[k]
        n == Len(rec_raw)
        hw == RecWord(k)
    IN  /\ r.hdr = (IF k = 1 THEN 0 ELSE rec_recs[k - 1].hi)
        /\ r.tag = (hw[1] + 256 * hw[2]) % 1024
        /\ r.lvl = ((hw[2] \div 4) + 64 * hw[3]) % 1024
        /\ r.sz = RecRealSize(k)
        /\ r.lo = r.hdr + (IF RecSizeField(k) = 4095 THEN 8 ELSE 4)
        /\ r.hi = Min(r.lo + r.sz, n)
        /\ 0 <= r.lo /\ r.lo <= r.hi /\ r.hi <= n
        /\ k > 1 => rec_recs[k - 1].hi <= r.lo
        /\ Len(r.data) = r.hi - r.lo
        /\ \A i \in 1..Len(r.data) : r.data[i] = rec_raw[r.lo + i]
        /\ Len(r.data) < r.sz => (k = Len(rec_recs) /\ r.hi = n)

\* C17: parse_records decodes tag, level and size from bits 0..9, 10..19 and
\* 20..31 of each header word, takes the following u32 as the size when the
\* field is 0xFFF, clips the data of the last record only, returns data ranges
\* that are disjoint, increasing and inside the buffer, and returns on every
\* buffer.
C17_ParseRecords ==
  /\ [](RecParsed)
  /\ [](rec_pc = "returned" => rec_off <= Len(rec_raw))
  /\ <>(rec_pc = "returned")

\* parse_records has returned two records, the first with its size after a
\* 0xFFF field, the last clipped at the end of the buffer
C17_Witness ==
  /\ rec_pc = "returned"
  /\ Len(rec_recs) = 2
  /\ RecSizeField(1) = 4095 /\ Len(rec_recs[1].data) = rec_recs[1].sz
  /\ rec_recs[1].sz > 0
  /\ Len(rec_recs[2].data) < rec_recs[2].sz

\* ------------------------------------- hwp_module.redact and parse_records

\* core/record_parser.parse_records as a function of the buffer: the tag and
\* the data range [lo, hi) of every record it returns, from offset off on
RECURSIVE parse_records(_, _)
parse_records(raw, off) ==
  LET n == Len(raw)
  IN  IF ~(off < n) \/ off + 4 > n THEN <<>>
      ELSE LET h == unpack_u32(raw, off)
               sz0 == bits(h, 20, 12)
               off1 == IF sz0 = 4095 THEN off + 8 ELSE off + 4
           IN  IF sz0 = 4095 /\ off + 4 + 4 > n THEN <<>>
               ELSE LET sz == IF sz0 = 4095 THEN ext_size(raw, off + 4) ELSE sz0
                        hi == IF off1 + sz > n THEN n ELSE off1 + sz
                    IN  <<[tag |-> bits(h, 0, 10), lo |-> off1, hi |-> hi]>>
                          \o parse_records(raw, hi)

\* the section buffer redact works on, and the one it leaves
HwpDec == IF zlib_decompress(h_raw)[1] THEN zlib_decompress(h_raw)[2] ELSE h_raw
HwpData ==
  IF zlib_decompress(h_raw)[1] THEN zlib_decompress(h_out)[2] ELSE h_out

\* C18: hwp_module.redact changes only payload bytes of PARA_TEXT records,
\* with the record boundaries of the documented header decoding; the headers,
\* the payloads of the other records and the length of the decompressed
\* section buffer stay as they were.
C18_OnlyParaTextPayload ==
  (h_pc = "returned" /\ exists) =>
    LET rs == parse_records(HwpDec, 0)
    IN  /\ Len(HwpData) = Len(HwpDec)
        /\ \A i \in 1..Min(Len(HwpDec), Len(HwpData)) :
             HwpData[i] # HwpDec[i] =>
               \E k \in DOMAIN rs :
                 rs[k].tag = TAG_PARA_TEXT /\ rs[k].lo < i /\ i <= rs[k].hi

\* ------------------------------- doc_chart: the scan loop, step by step

\* largest cch of the strings laid out in the scanned records
MaxUcsCch == 2
\* most bytes missing from the end of the payload
MaxUcsCut == 4

\* the flags bytes of the strings: none, fHighByte, fExtSt, fRichSt and
\* combinations of them
UcsFlags == {0, 1, 4, 8, 12, 13}

\* an XLUnicodeRichExtendedString laid out as documented: cch, flags, cRun = 1
\* when fRichSt, cbExtRst = 1 when fExtSt, the text, one run, one ExtRst byte
UcsString(cch, flags, ch) ==
  LET high == flags % 2 = 1
      ext == (flags \div 4) % 2 = 1
      rich == (flags \div 8) % 2 = 1
  IN  <<cch, 0, flags>>
        \o (IF rich THEN <<1, 0>> ELSE <<>>)
        \o (IF ext THEN <<1, 0, 0, 0>> ELSE <<>>)
        \o (IF high THEN [i \in 1..(2 * cch) |-> IF i % 2 = 1 THEN ch ELSE 0]
                    ELSE [i \in 1..cch |-> ch])
        \o (IF rich THEN <<0, 0, 0, 0>> ELSE <<>>)
        \o (IF ext THEN <<7>> ELSE <<>>)

\* scan_and_redact_payload starts: the chunks and segments are collected
scan_enter ==
  /\ u_pc = "start"
  /\ LET cc == collect_continue_chuncks(u_wb, 0)
     IN  /\ u_chunks' = cc[1]
         /\ u_segs' = cc[2]
         /\ u_pc' = IF cc[1] = <<>> THEN "returned" ELSE "loop"
  /\ UNCHANGED <<u_wb, u_pos, u_at, u_x, u_red, notUcs>>

\* x = XLUCS(); x.try_parse_chunks(chunks, pos)
scan_try ==
  /\ u_pc = "loop"
  /\ u_pos < Len(Flatten(u_chunks))
  /\ u_x' = try_parse_chunks(u_chunks, u_pos)
  /\ u_at' = u_pos
  /\ u_pc' = "tried"
  /\ UNCHANGED <<u_wb, u_chunks, u_segs, u_pos, u_red, notUcs>>

\* try_parse_chunks returned False: pos += 1; continue
scan_skip ==
  /\ u_pc = "tried"
  /\ ~u_x.ok
  /\ u_pos' = u_pos + 1
  /\ u_pc' = "loop"
  /\ UNCHANGED <<u_wb, u_chunks, u_segs, u_at, u_x, u_red, notUcs>>

\* try_parse_chunks returned True: the text is masked when it is sensitive and
\* pos moves past the string
scan_string ==
  /\ u_pc = "tried"
  /\ u_x.ok
  /\ LET text == strip(decode_text(u_x))
         hit == /\ text # <<>>
                /\ find_sensitive_spans(normalization_text(text)) # {}
         enc == IF u_x.fHigh = 1 THEN "utf-16le" ELSE "cp949"
         raw_len == u_x.text_hi - u_x.text_lo
         masked == ljust_star(
                     Slice(encode(Repeat(STAR, Len(text)), enc)[2], 0, raw_len),
                     raw_len)
         header_len ==
           3 + (IF u_x.fRich = 1 THEN 2 + u_x.cRun * 4 ELSE 0)
             + (IF u_x.fExt = 1 THEN 4 + u_x.cbExtRst ELSE 0)
         advance == header_len + u_x.cch * (IF u_x.fHigh = 1 THEN 2 ELSE 1)
     IN  /\ u_chunks' = IF hit THEN write_chunk_mask(u_chunks, u_x.text_lo, masked)
                        ELSE u_chunks
         /\ u_red' = IF hit THEN u_red + 1 ELSE u_red
         /\ u_pos' = u_pos + advance
  /\ u_pc' = "loop"
  /\ UNCHANGED <<u_wb, u_segs, u_at, u_x, notUcs>>

\* the loop is over: the fallback runs when nothing was masked, and the chunks
\* are written back to the workbook buffer
scan_return ==
  /\ u_pc = "loop"
  /\ ~(u_pos < Len(Flatten(u_chunks)))
  /\ LET fb == fallback_redact(Flatten(u_chunks))
         cs == IF u_red = 0 /\ fb[2] > 0
                 THEN write_back_fallback(u_chunks, fb[1], 0)
                 ELSE u_chunks
     IN  /\ u_chunks' = cs
         /\ u_red' = IF u_red = 0 THEN fb[2] ELSE u_red
         /\ u_wb' = write_back_loop(u_wb, Flatten(cs), u_segs, 0)
  /\ u_pc' = "returned"
  /\ UNCHANGED <<u_segs, u_pos, u_at, u_x, notUcs>>

\* a string record whose payload is one string, possibly followed by a plain
\* one-character string, with some bytes missing from its end and possibly
\* continued in a CONTINUE record
InitUcs ==
  /\ IdleButUcs
  /\ \E cch \in 0..MaxUcsCch, flags \in UcsFlags, ch \in {65, 57},
        more \in BOOLEAN, cut \in 0..MaxUcsCut, c \in BOOLEAN :
       LET full == UcsString(cch, flags, ch)
                     \o (IF more THEN UcsString(1, 0, 57) ELSE <<>>)
           p == SubSeq(full, 1, Len(full) - Min(cut, Len(full) - 1))
       IN  \E n1 \in (IF c THEN 1..Len(p) ELSE {Len(p)}) :
             u_wb = XlRecord(OP_TEXT, SubSeq(p, 1, n1))
                      \o (IF c THEN XlRecord(CONTINUE, SubSeq(p, n1 + 1, Len(p)))
                               ELSE <<>>)
  /\ u_chunks = <<>> /\ u_segs = <<>> /\ u_pos = 0 /\ u_at = -1
  /\ u_x = [ok |-> FALSE] /\ u_red = 0
  /\ u_pc = "start"

NextUcs ==
  \/ scan_enter
  \/ scan_try
  \/ scan_skip
  \/ scan_string
  \/ scan_return

SpecUcs == InitUcs /\ [][NextUcs]_vars

\* the byte at position q of the concatenated chunks
UcsFlat == Flatten(u_chunks)
UcsAt(q) == UcsFlat[q + 1]
\* a flags bit of the string header at the position of the last attempt
UcsFlag(mask) == (UcsAt(u_at + 2) \div mask) % 2 = 1
\* where the documented layout puts the text of a string that starts there
UcsTextLo ==
  u_at + 3 + (IF UcsFlag(8) THEN 2 ELSE 0) + (IF UcsFlag(4) THEN 4 ELSE 0)
UcsTextHi ==
  UcsTextLo + (UcsAt(u_at) + 256 * UcsAt(u_at + 1)) * (IF UcsFlag(1) THEN 2 ELSE 1)

\* C19: try_parse_chunks reads the string at pos as documented (flags 0x01
\* fHighByte, 0x04 fExtSt, 0x08 fRichSt; text at pos + 3 + 2 if fRichSt + 4 if
\* fExtSt, cch * (2 if fHighByte else 1) bytes long); it returns False and
\* sets no field when the header, an optional field or the text runs past the
\* end of the chunks, and the scan then moves on by one byte.
C19_XlucsLayout ==
  /\ (u_pc = "tried" /\ u_x.ok) =>
       /\ u_at + 3 <= Len(UcsFlat)
       /\ u_x.cch = UcsAt(u_at) + 256 * UcsAt(u_at + 1)
       /\ u_x.flags = UcsAt(u_at + 2)
       /\ (u_x.fHigh = 1) = UcsFlag(1)
       /\ (u_x.fExt = 1) = UcsFlag(4)
       /\ (u_x.fRich = 1) = UcsFlag(8)
       /\ u_x.text_lo = UcsTextLo
       /\ u_x.text_hi = UcsTextHi
       /\ u_x.text_hi - u_x.text_lo = u_x.cch * (IF UcsFlag(1) THEN 2 ELSE 1)
       /\ u_x.text_hi <= Len(UcsFlat)
       /\ u_x.buf = [i \in 1..(UcsTextHi - UcsTextLo) |-> UcsAt(UcsTextLo + i - 1)]
  /\ (/\ u_pc = "tried"
      /\ \/ u_at + 3 > Len(UcsFlat)
         \/ UcsTextLo > Len(UcsFlat)
         \/ UcsTextHi > Len(UcsFlat))
       => (~u_x.ok /\ DOMAIN u_x = {"ok"})
  /\ (u_pc = "loop" /\ u_at >= 0 /\ ~u_x.ok) => u_pos = u_at + 1

\* a string with fRichSt and fExtSt set was parsed across two chunks
C19_Witness ==
  /\ u_pc = "tried" /\ u_x.ok
  /\ u_x.fRich = 1 /\ u_x.fExt = 1 /\ u_x.cch = 2
  /\ Len(u_chunks) = 2
  /\ Len(u_chunks[1]) < u_x.text_hi

\* the pieces replace_text works on, <<>> when it gives up before the loop
DocPieces ==
  LET rd == read_word_and_table_streams(doc_file)
  IN  IF falsy(rd[1]) \/ falsy(rd[2]) THEN <<>>
      ELSE LET c == get_clx_data(rd[1][2], rd[2][2])
           IN  IF c[1] = "raise" \/ falsy(c[2]) THEN <<>>
               ELSE IF extract_plcpcd(c[2][2], 0) = <<>> THEN <<>>
               ELSE parse_plcpcd(extract_plcpcd(c[2][2], 0))

\* the characters of piece k
DocPieceText(k) ==
  LET p == DocPieces[k]
  IN  IF p.fc + p.byte_count > Len(DocWord) THEN <<>>
      ELSE decode_piece(Slice(DocWord, p.fc, p.fc + p.byte_count), p.fCompressed)

\* the character at 1-based position j of piece k, in the stream returned
DocOutChar(k, j) ==
  LET p == DocPieces[k]
      o == p.fc + (j - 1) * (IF p.fCompressed THEN 1 ELSE 2)
  IN  IF p.fCompressed THEN doc_out.word[2][o + 1]
      ELSE doc_out.word[2][o + 1] + 256 * doc_out.word[2][o + 2]

\* C20: a target whose first a characters end piece k and whose other
\* characters start piece k+1 is overwritten by replace_text in both pieces.
C20_CrossPieceMasked ==
  (doc_pc = "returned" /\ doc_fn = "replace_text") =>
    \A t \in DOMAIN doc_targets, k \in 1..(Len(DocPieces) - 1) :
      LET T == doc_targets[t]
          x == DocPieceText(k)
          y == DocPieceText(k + 1)
      IN  \A a \in 1..(Len(T) - 1) :
            (/\ a <= Len(x) /\ Len(T) - a <= Len(y)
             /\ SubSeq(x, Len(x) - a + 1, Len(x)) = SubSeq(T, 1, a)
             /\ SubSeq(y, 1, Len(T) - a) = SubSeq(T, a + 1, Len(T)))
              => /\ \A j \in (Len(x) - a + 1)..Len(x) : DocOutChar(k, j) = STAR
                 /\ \A j \in 1..(Len(T) - a) : DocOutChar(k + 1, j) = STAR

\* ------------------------------------------------ doc_chart: EMF records

\* most characters a text record of the scanned EMF buffers declares
MaxEmfChars == 2

EMR_EXTTEXTOUTA == 83
EMR_EXTTEXTOUTW == 84
EMR_POLYTEXTOUTA == 96
EMR_POLYTEXTOUTW == 97
EMR_SMALLTEXTOUT == 108

\* le32(b, off): struct.unpack_from("<I", b, off)[0]; a value of 2^29 or more
\* is beyond every offset of the buffers and is represented by 2^29
le32(b, off) ==
  IF b[off + 4] >= 32 THEN 536870912 ELSE unpack_I(b, off)

\* struct.unpack_from raises struct.error unless 4 bytes are left at p
emf_fits(emf, p) == p >= 0 /\ p + 4 <= Len(emf)

\* the text of a segment and whether it holds a sensitive span
emf_text(emf, start, length, enc) ==
  IF enc = "utf-16le" THEN decode_utf16le(Slice(emf, start, start + length))
  ELSE decode_cp949(Slice(emf, start, start + length))

emf_hit(emf, start, length, enc) ==
  find_sensitive_spans(normalization_text(emf_text(emf, start, length, enc)))
    # {}

\* emf[start:start+length] = ("*" * len(text)).encode(enc)[:length].ljust(..)
emf_mask(emf, start, length, enc) ==
  SliceAssign(emf, start, start + length,
              ljust_star(Slice(encode(Repeat(STAR,
                                             Len(emf_text(emf, start, length, enc))),
                                      enc)[2], 0, length), length))

\* redact_emr_block once chars and off_string are read: <<st, emf, masks>>
emr_block_text(emf, base, rec_size, is_unicode, chars, off_string) ==
  LET str_start == base + off_string
      str_end == str_start + chars * (IF is_unicode THEN 2 ELSE 1)
      enc == IF is_unicode THEN "utf-16le" ELSE "cp949"
  IN  IF chars = 0 \/ off_string = 0 THEN <<"ok", emf, <<>>>>
      ELSE IF str_end > base + rec_size THEN <<"ok", emf, <<>>>>
      ELSE IF ~emf_hit(emf, str_start, str_end - str_start, enc)
        THEN <<"ok", emf, <<>>>>
      ELSE <<"ok", emf_mask(emf, str_start, str_end - str_start, enc),
             <<<<str_start, str_end>>>>>>

\* redact_emr_block: <<st, emf, masks>>, st = "raise" for struct.error
redact_emr_block(emf, base, is_unicode) ==
  LET emrtext_off == base + 36
  IN  IF emrtext_off + 8 > base + le32(emf, base + 4)
        THEN <<"ok", emf, <<>>>>
      ELSE IF ~emf_fits(emf, emrtext_off + 8) \/ ~emf_fits(emf, emrtext_off + 12)
        THEN <<"raise", emf, <<>>>>
      ELSE emr_block_text(emf, base, le32(emf, base + 4), is_unicode,
                          le32(emf, emrtext_off + 8),
                          le32(emf, emrtext_off + 12))

\* the for loop of parse_emr_polytextout with k strings left, reading at p:
\* <<st, segments>>
RECURSIVE polytextout_strings(_, _, _, _, _, _, _)
polytextout_strings(emf, base, rec_size, is_unicode, p, k, segments) ==
  IF k = 0 THEN <<"ok", segments>>
  ELSE IF ~emf_fits(emf, p + 16) THEN <<"raise", segments>>
  ELSE LET chars == le32(emf, p + 8)
           offString == le32(emf, p + 12)
           no_rect == emf[p + 16 + 2] % 2 = 1
           str_start == base + offString
           str_len == chars * (IF is_unicode THEN 2 ELSE 1)
           keep == /\ chars # 0 /\ offString # 0
                   /\ base <= str_start /\ str_start < str_start + str_len
                   /\ str_start + str_len <= base + rec_size
       IN  polytextout_strings(
             emf, base, rec_size, is_unicode,
             p + 20 + (IF no_rect THEN 0 ELSE 16) + 4, k - 1,
             IF keep THEN Append(segments, <<str_start, str_len>>)
             ELSE segments)

\* parse_emr_polytextout: <<st, segments>>
parse_emr_polytextout(emf, base, rec_size, is_unicode) ==
  IF ~emf_fits(emf, base + 36) THEN <<"raise", <<>>>>
  ELSE polytextout_strings(emf, base, rec_size, is_unicode, base + 40,
                           le32(emf, base + 36), <<>>)

\* parse_emr_smalltextout: <<st, found, text_start, byte_len, encoding>>
parse_emr_smalltextout(emf, base, rec_size) ==
  IF ~emf_fits(emf, base + 24) THEN <<"raise", FALSE, 0, 0, "">>
  ELSE LET cChars == le32(emf, base + 16)
           no_rect == emf[base + 20 + 2] % 2 = 1
           small == emf[base + 20 + 2] >= 128
           text_start == base + 36 + (IF no_rect THEN 0 ELSE 16)
           byte_len == IF small THEN cChars ELSE cChars * 2
       IN  IF text_start + byte_len > base + rec_size
             THEN <<"ok", FALSE, 0, 0, "">>
             ELSE <<"ok", TRUE, text_start, byte_len,
                    IF small THEN "cp949" ELSE "utf-16le">>

\* the for loop over the segments of a POLYTEXTOUT record: <<emf, masks>>
RECURSIVE emf_segments(_, _, _, _)
emf_segments(emf, sgs, enc, masks) ==
  IF sgs = <<>> THEN <<emf, masks>>
  ELSE LET start == Head(sgs)[1]
           length == Head(sgs)[2]
       IN  IF emf_hit(emf, start, length, enc)
             THEN emf_segments(emf_mask(emf, start, length, enc), Tail(sgs),
                               enc, Append(masks, <<start, start + length>>))
             ELSE emf_segments(emf, Tail(sgs), enc, masks)

\* the body of the for loop of redact_emf_stream for one record:
\* <<st, emf, masks>>
emf_record(emf, base, rec_type, rec_size) ==
  IF rec_type = EMR_EXTTEXTOUTA THEN redact_emr_block(emf, base, FALSE)
  ELSE IF rec_type = EMR_EXTTEXTOUTW THEN redact_emr_block(emf, base, TRUE)
  ELSE IF rec_type \in {EMR_POLYTEXTOUTA, EMR_POLYTEXTOUTW}
    THEN CHOOSE r \in
           {IF sg[1] = "raise" THEN <<"raise", emf, <<>>>>
            ELSE CHOOSE q \in
                   {<<"ok", m[1], m[2]>> :
                      m \in {emf_segments(
                               emf, sg[2],
                               IF rec_type = EMR_POLYTEXTOUTW THEN "utf-16le"
                               ELSE "cp949", <<>>)}} : TRUE :
              sg \in {parse_emr_polytextout(emf, base, rec_size,
                                            rec_type = EMR_POLYTEXTOUTW)}} : TRUE
  ELSE IF rec_type = EMR_SMALLTEXTOUT
    THEN CHOOSE r \in
           {IF seg[1] = "raise" THEN <<"raise", emf, <<>>>>
            ELSE IF ~seg[2] THEN <<"ok", emf, <<>>>>
            ELSE IF ~emf_hit(emf, seg[3], seg[4], seg[5]) THEN <<"ok", emf, <<>>>>
            ELSE <<"ok", emf_mask(emf, seg[3], seg[4], seg[5]),
                   <<<<seg[3], seg[3] + seg[4]>>>>>> :
              seg \in {parse_emr_smalltextout(emf, base, rec_size)}} : TRUE
  ELSE <<"ok", emf, <<>>>>

\* iter_emf_records driving the loop of redact_emf_stream from offset off:
\* <<st, emf, masks>>; a mask is <<base, rec_type, rec_size, start, end>>
RECURSIVE emf_loop(_, _, _)
emf_loop(emf, off, masks) ==
  IF ~(off + 8 <= Len(emf)) THEN <<"ok", emf, masks>>
  ELSE IF le32(emf, off + 4) <= 0 \/ off + le32(emf, off + 4) > Len(emf)
    THEN <<"ok", emf, masks>>
  ELSE CHOOSE out \in
         {IF r[1] = "raise" THEN <<"raise", emf, masks>>
          ELSE emf_loop(r[2], off + le32(emf, off + 4),
                        masks \o [i \in DOMAIN r[3] |->
                                    <<off, le32(emf, off), le32(emf, off + 4),
                                      r[3][i][1], r[3][i][2]>>]) :
            r \in {emf_record(emf, off, le32(emf, off), le32(emf, off + 4))}} :
         TRUE

\* redact_emf_stream(emf_bytes)
redact_emf_stream ==
  /\ emf_pc = "start"
  /\ \E r \in {emf_loop(emf_in, 0, <<>>)} :
       /\ emf_pc' = IF r[1] = "raise" THEN "raised" ELSE "returned"
       /\ emf_out' = IF r[1] = "raise" THEN <<>> ELSE r[2]
       /\ emf_masks' = r[3]
  /\ UNCHANGED <<emf_in, notEmf>>

\* a u32 field as its four little-endian bytes
EmfU32(v) == <<v % 256, (v \div 256) % 256, 0, 0>>

\* an EMF record of the given size: type and size, the u32 fields listed as
\* <<offset, value>>, and the byte fill everywhere else
EmfRec(type, size, fields, fill) ==
  [i \in 1..size |->
     IF i - 1 < 4 THEN EmfU32(type)[i]
     ELSE IF i - 1 < 8 THEN EmfU32(size)[i - 4]
     ELSE IF \E f \in fields : i - 1 >= f[1] /\ i - 1 < f[1] + 4
       THEN LET f == CHOOSE f \in fields : i - 1 >= f[1] /\ i - 1 < f[1] + 4
            IN  EmfU32(f[2])[i - f[1]]
     ELSE fill]

\* the fields of a text record of the given type: a characters, string offset
\* b, options c; a POLYTEXTOUT record declares d strings
EmfFields(type, a, b, c, d) ==
  IF type \in {EMR_EXTTEXTOUTA, EMR_EXTTEXTOUTW}
    THEN {<<44, a>>, <<48, b>>, <<52, c>>}
  ELSE IF type \in {EMR_POLYTEXTOUTA, EMR_POLYTEXTOUTW}
    THEN {<<36, d>>, <<48, a>>, <<52, b>>, <<56, c>>}
  ELSE IF type = EMR_SMALLTEXTOUT THEN {<<16, a>>, <<20, c>>}
  ELSE {}

\* an EXTTEXTOUTA record whose two characters at offset 52 are sensitive
EmfSound == EmfRec(EMR_EXTTEXTOUTA, 56, {<<44, 2>>, <<48, 52>>}, 57)

\* one record of any kind, well-formed or not, alone or between well-formed
\* text records
InitEmf ==
  /\ IdleButEmf
  /\ \E type \in {1, EMR_EXTTEXTOUTA, EMR_EXTTEXTOUTW, EMR_POLYTEXTOUTA,
                  EMR_POLYTEXTOUTW, EMR_SMALLTEXTOUT},
        size \in {8, 40, 44, 52, 64, 84},
        a \in 0..MaxEmfChars, b \in {0, 8, 60, 80}, c \in {0, 256, 33024},
        d \in {1, 2}, fill \in {57, 65},
        pre \in {<<>>, EmfSound}, post \in {<<>>, EmfSound} :
       emf_in = pre \o EmfRec(type, size, EmfFields(type, a, b, c, d), fill)
                  \o post
  /\ emf_out = <<>> /\ emf_masks = <<>>
  /\ emf_pc = "start"

NextEmf == redact_emf_stream

SpecEmf == InitEmf /\ [][NextEmf]_vars

\* C21: every range redact_emf_stream overwrites starts after the header,
\* the bounding rectangle and the graphics-mode fields of the record it was
\* found in and ends inside that record, and the buffer keeps its length.
C21_MaskInsideTextArea ==
  emf_pc = "returned" =>
    /\ Len(emf_out) = Len(emf_in)
    /\ \A k \in DOMAIN emf_masks :
         /\ emf_masks[k][1] + 36 <= emf_masks[k][4]
         /\ emf_masks[k][5] <= emf_masks[k][1] + emf_masks[k][3]
    /\ \A i \in DOMAIN emf_in :
         emf_out[i] # emf_in[i] =>
           \E k \in DOMAIN emf_masks :
             emf_masks[k][4] < i /\ i <= emf_masks[k][5]

\* C22: redact_emf_stream returns on every buffer; a text record whose fields
\* do not fit is skipped.
C22_NeverRaises == emf_pc # "raised"

\* ------------------------------------------- body_replacer: section streams

\* most characters of a section text
MaxBodyChars == 4

\* Raw deflate with its back-references, without the entropy coding: a stream
\* is a run of tokens, <<1, b>> a literal byte, <<2, n, dist>> a copy of n >= 3
\* bytes from dist bytes back, <<0>> the end of the stream. Its length depends
\* on the repetitions of the data.

\* how far d[i:] agrees with d[i - dist:], from k bytes on
RECURSIVE lz_len(_, _, _, _)
lz_len(d, i, dist, k) ==
  IF i + k < Len(d) /\ d[i + k + 1] = d[i + k - dist + 1]
    THEN lz_len(d, i, dist, k + 1)
    ELSE k

\* the longest copy available at i, the nearest one first: <<n, dist>>
lz_best(d, i) ==
  IF i = 0 THEN <<0, 0>>
  ELSE LET x == CHOOSE x \in 1..i :
                  \A y \in 1..i :
                    \/ lz_len(d, i, y, 0) < lz_len(d, i, x, 0)
                    \/ lz_len(d, i, y, 0) = lz_len(d, i, x, 0) /\ x <= y
       IN  <<lz_len(d, i, x, 0), x>>

\* cobj = zlib.compressobj(level=9, wbits=-15); cobj.compress(d) + cobj.flush()
RECURSIVE deflate_from(_, _)
deflate_from(d, i) ==
  IF i >= Len(d) THEN <<0>>
  ELSE CHOOSE out \in
         {IF m[1] >= 3 THEN <<2, m[1], m[2]>> \o deflate_from(d, i + m[1])
          ELSE <<1, d[i + 1]>> \o deflate_from(d, i + 1) :
            m \in {lz_best(d, i)}} : TRUE

deflate(d) == deflate_from(d, 0)

\* the copy of n bytes from dist bytes back, which may run into itself
RECURSIVE lz_copy(_, _, _)
lz_copy(out, dist, n) ==
  IF n = 0 THEN out
  ELSE lz_copy(Append(out, out[Len(out) - dist + 1]), dist, n - 1)

\* zlib.decompress(raw, -15) from token position q: <<ok, dec>>; ok = FALSE is
\* zlib.error (an unknown token, a copy from before the start, a stream that
\* stops before its end token); bytes after the end token are ignored
RECURSIVE inflate_from(_, _, _)
inflate_from(raw, q, out) ==
  IF q >= Len(raw) THEN <<FALSE, <<>>>>
  ELSE IF raw[q + 1] = 0 THEN <<TRUE, out>>
  ELSE IF raw[q + 1] = 1
    THEN IF q + 2 <= Len(raw)
           THEN inflate_from(raw, q + 2, Append(out, raw[q + 2]))
           ELSE <<FALSE, <<>>>>
  ELSE IF raw[q + 1] = 2
    THEN IF q + 3 <= Len(raw) /\ raw[q + 2] >= 3
              /\ raw[q + 3] >= 1 /\ raw[q + 3] <= Len(out)
           THEN inflate_from(raw, q + 3, lz_copy(out, raw[q + 3], raw[q + 2]))
           ELSE <<FALSE, <<>>>>
  ELSE <<FALSE, <<>>>>

inflate(raw) == inflate_from(raw, 0, <<>>)

pad_to_length(blob, target) ==
  IF Len(blob) < target THEN blob \o Repeat(0, target - Len(blob))
  ELSE IF Len(blob) > target THEN Slice(blob, 0, target)
  ELSE blob

\* process_body_stream once dec is known: <<st, new_dec, out, hits>>
body_replace(raw, dec, compressed, old) ==
  CHOOSE res \in
    {IF r[1] # "ok" THEN <<"raised", <<>>, <<>>, 0>>
     ELSE <<"returned", r[2],
            pad_to_length(IF compressed THEN deflate(r[2]) ELSE r[2], Len(raw)),
            r[3]>> :
       r \in {visible_replace_keep_len_with_logs(dec, old)}} : TRUE

\* process_body_stream(raw, old)
process_body_stream ==
  /\ pb_pc = "start"
  /\ \E z \in {inflate(pb_raw)} :
       /\ pb_compressed' = z[1]
       /\ \E res \in {body_replace(pb_raw, IF z[1] THEN z[2] ELSE pb_raw,
                                   z[1], pb_old)} :
            /\ pb_pc' = res[1]
            /\ pb_new_dec' = res[2]
            /\ pb_out' = res[3]
            /\ pb_hits' = res[4]
  /\ UNCHANGED <<pb_raw, pb_old, notBody>>

\* a section text of 'A' and 'B' in UTF-16LE, stored plain or deflated, and a
\* string to mask
InitBody ==
  /\ IdleButBody
  /\ \E text \in SeqsUpTo({65, 66}, MaxBodyChars) :
       pb_raw \in {encode(text, "utf-16le")[2],
                   deflate(encode(text, "utf-16le")[2])}
  /\ pb_old \in {<<65>>, <<65, 66>>, <<66, 66>>}
  /\ pb_compressed = FALSE /\ pb_new_dec = <<>>
  /\ pb_out = <<>> /\ pb_hits = 0
  /\ pb_pc = "start"

NextBody == process_body_stream

SpecBody == InitBody /\ [][NextBody]_vars

\* C23: when the section was deflated, process_body_stream never returns a
\* cut deflate stream: a masked payload that deflates to more bytes than raw
\* is refused (raw is returned with zero hits), and whenever hits > 0 the
\* returned bytes inflate to exactly the masked payload.
C23_FailsClosedOnLength ==
  (pb_pc = "returned" /\ pb_compressed) =>
    /\ pb_hits > 0 => inflate(pb_out) = <<TRUE, pb_new_dec>>
    /\ Len(deflate(pb_new_dec)) > Len(pb_raw) =>
         (pb_out = pb_raw /\ pb_hits = 0)

\* ------------------------------------------------------ doc_module.redact

\* C24: redact overwrites detected sensitive text only: every character of a
\* piece that the redaction rules leave as it is has the same value in the
\* WordDocument stream returned.
C24_OnlySensitiveOverwritten ==
  (doc_pc = "returned" /\ doc_fn = "redact") =>
    \A k \in DOMAIN DocPieces :
      \A j \in DOMAIN DocPieceText(k) :
        apply_redaction_rules(DocPieceText(k))[j] = DocPieceText(k)[j]
          => DocOutChar(k, j) = DocPieceText(k)[j]

\* ------------------------------------------------------ CLI orchestrators

\* C25: the CLI orchestrator writes a stream through the table that stores
\* it: the MiniFAT when the size of its directory entry is below the cutoff,
\* the FAT otherwise, for section streams and chart streams alike.
C25_TableOfTheStream ==
  (impl = "core" /\ tbl # "none") =>
    tbl = (IF de.size < MiniCutoff THEN "MiniFAT" ELSE "FAT")

\* ------------------------------------------------- xls_module: SST, redact

\* largest cch of the SST strings of the scanned workbooks
MaxXlsCch == 2

HEADER == 20
FOOTER == 21

\* get_sst_blocks: the <<payload, abs_off>> of the SST record and of the
\* CONTINUE records that follow it, <<>> when there is none (None)
RECURSIVE get_sst_blocks(_, _, _, _)
get_sst_blocks(buf, off, found, blocks) ==
  IF ~(off + 4 <= Len(buf)) THEN blocks
  ELSE IF le16(buf, off) = SST \/ (found /\ le16(buf, off) = CONTINUE)
    THEN get_sst_blocks(
           buf, off + 4 + le16(buf, off + 2), TRUE,
           Append(blocks,
                  <<Slice(buf, off + 4, off + 4 + le16(buf, off + 2)), off + 4>>))
  ELSE IF found THEN blocks
  ELSE get_sst_blocks(buf, off + 4 + le16(buf, off + 2), found, blocks)

\* SSTParser.__init__
SSTParser(blocks) ==
  [idx |-> 0, pos |-> 0, cur_abs |-> blocks[1][2], reading_text |-> FALSE]

\* next_block without the step over the first byte of a CONTINUE payload
next_block_skew(blocks, st) ==
  IF st.idx + 1 >= Len(blocks) THEN <<FALSE, [st EXCEPT !.idx = st.idx + 1]>>
  ELSE <<TRUE, [st EXCEPT !.idx = st.idx + 1, !.pos = 0,
                          !.cur_abs = blocks[st.idx + 2][2]]>>

\* SSTParser.next_block: <<ok, parser>>, ok = FALSE is EOFError
next_block(blocks, st) ==
  IF st.idx + 1 >= Len(blocks) THEN <<FALSE, [st EXCEPT !.idx = st.idx + 1]>>
  ELSE IF st.reading_text /\ Len(blocks[st.idx + 2][1]) > 0
    THEN <<TRUE, [st EXCEPT !.idx = st.idx + 1, !.pos = 1,
                            !.cur_abs = blocks[st.idx + 2][2] + 1]>>
  ELSE <<TRUE, [st EXCEPT !.idx = st.idx + 1, !.pos = 0,
                          !.cur_abs = blocks[st.idx + 2][2]]>>

\* SSTParser.read_n with remain bytes to go: <<ok, parser, out>>
RECURSIVE read_n(_, _, _, _)
read_n(blocks, st, remain, out) ==
  IF remain <= 0 THEN <<TRUE, st, out>>
  ELSE IF st.idx >= Len(blocks) THEN <<FALSE, st, out>>
  ELSE IF Len(blocks[st.idx + 1][1]) - st.pos <= 0
    THEN IF next_block(blocks, st)[1]
           THEN read_n(blocks, next_block(blocks, st)[2], remain, out)
           ELSE <<FALSE, st, out>>
  ELSE read_n(
         blocks,
         [st EXCEPT
            !.pos = @ + Min(Len(blocks[st.idx + 1][1]) - st.pos, remain),
            !.cur_abs = @ + Min(Len(blocks[st.idx + 1][1]) - st.pos, remain)],
         remain - Min(Len(blocks[st.idx + 1][1]) - st.pos, remain),
         out \o Slice(blocks[st.idx + 1][1], st.pos,
                      st.pos + Min(Len(blocks[st.idx + 1][1]) - st.pos, remain)))

\* the while loop of SSTParser.read_str_bytes: <<ok, parser, out, pos_list>>
RECURSIVE read_str_bytes(_, _, _, _, _)
read_str_bytes(blocks, st, total, out, pos_list) ==
  IF ~(Len(out) < total) THEN <<TRUE, st, out, pos_list>>
  ELSE IF st.idx >= Len(blocks) THEN <<FALSE, st, out, pos_list>>
  ELSE IF Len(blocks[st.idx + 1][1]) - st.pos <= 0
    THEN IF next_block(blocks, st)[1]
           THEN read_str_bytes(blocks, next_block(blocks, st)[2], total, out,
                               pos_list)
           ELSE <<FALSE, st, out, pos_list>>
  ELSE read_str_bytes(
         blocks,
         [st EXCEPT
            !.pos = @ + Min(total - Len(out), Len(blocks[st.idx + 1][1]) - st.pos),
            !.cur_abs = @ + Min(total - Len(out),
                                Len(blocks[st.idx + 1][1]) - st.pos)],
         total,
         out \o Slice(blocks[st.idx + 1][1], st.pos,
                      st.pos + Min(total - Len(out),
                                   Len(blocks[st.idx + 1][1]) - st.pos)),
         pos_list
           \o [i \in 1..Min(total - Len(out), Len(blocks[st.idx + 1][1]) - st.pos)
                 |-> st.cur_abs + i - 1])

\* bytes.decode("latin1"): the code point of a byte is its value
decode_latin1(b) == [i \in DOMAIN b |-> b[i]]

\* parse_exlus from the text on: <<ok, parser, x>>
exlus_text(blocks, st, cch, flags, cRun, cbExt) ==
  CHOOSE res \in
    {IF ~t[1] THEN <<FALSE, t[2], <<>>>>
     ELSE CHOOSE res2 \in
       {IF ~e[1] THEN <<FALSE, e[2], <<>>>>
        ELSE CHOOSE res3 \in
          {IF ~f[1] THEN <<FALSE, f[2], <<>>>>
           ELSE <<TRUE, f[2],
                  [cch |-> cch, fHigh |-> flags % 2,
                   text |-> IF flags % 2 = 1 THEN decode_utf16le(t[3])
                            ELSE decode_latin1(t[3]),
                   byte_positions |-> t[4]]>> :
             f \in {IF (flags \div 4) % 2 = 1 /\ cbExt > 0
                      THEN read_n(blocks, e[2], cbExt, <<>>)
                      ELSE <<TRUE, e[2], <<>>>>}} : TRUE :
          e \in {IF (flags \div 8) % 2 = 1 /\ cRun > 0
                   THEN read_n(blocks, [t[2] EXCEPT !.reading_text = FALSE],
                               4 * cRun, <<>>)
                   ELSE <<TRUE, [t[2] EXCEPT !.reading_text = FALSE], <<>>>>}} :
       TRUE :
       t \in {read_str_bytes(blocks, [st EXCEPT !.reading_text = TRUE],
                             cch * (IF flags % 2 = 1 THEN 2 ELSE 1),
                             <<>>, <<>>)}} : TRUE

\* SSTParser.parse_exlus: <<ok, parser, x>>, ok = FALSE is EOFError
parse_exlus(blocks, st) ==
  CHOOSE res \in
    {IF ~h[1] \/ Len(h[3]) < 3 THEN <<FALSE, h[2], <<>>>>
     ELSE CHOOSE res2 \in
       {IF ~c[1] THEN <<FALSE, c[2], <<>>>>
        ELSE CHOOSE res3 \in
          {IF ~d[1] THEN <<FALSE, d[2], <<>>>>
           ELSE exlus_text(blocks, d[2], le16(h[3], 0), h[3][3],
                           le16(c[3], 0), le32(d[3], 0)) :
             d \in {IF (h[3][3] \div 4) % 2 = 1
                      THEN read_n(blocks, c[2], 4, <<>>)
                      ELSE <<TRUE, c[2], <<0, 0, 0, 0>>>>}} : TRUE :
          c \in {IF (h[3][3] \div 8) % 2 = 1
                   THEN read_n(blocks, h[2], 2, <<>>)
                   ELSE <<TRUE, h[2], <<0, 0>>>>}} : TRUE :
       h \in {read_n(blocks, st, 3, <<>>)}} : TRUE

\* the while True loop of SSTParser.parse
RECURSIVE parse_loop(_, _, _)
parse_loop(blocks, st, out) ==
  CHOOSE res \in
    {IF ~x[1] THEN out ELSE parse_loop(blocks, x[2], Append(out, x[3])) :
       x \in {parse_exlus(blocks, st)}} : TRUE

\* SSTParser(blocks).parse(): <<st, list>>; the EOFError of the first read_n
\* is outside the try
SSTParser_parse(blocks) ==
  CHOOSE res \in
    {IF ~h[1] THEN <<"raise", <<>>>>
     ELSE <<"ok", parse_loop(blocks, h[2], <<>>)>> :
       h \in {read_n(blocks, SSTParser(blocks), 8, <<>>)}} : TRUE

\* redact_xlucs: the characters of each sensitive span become '*'
redact_xlucs(text) ==
  [i \in DOMAIN text |->
     IF i - 1 \in UNION {x[1]..(x[2] - 1) :
                           x \in {<<sp - 1, sp>> : sp \in find_sensitive_spans(text)}}
       THEN STAR ELSE text[i]]

\* encode_masked_text: <<ok, bytes>>, ok = FALSE is ValueError
RECURSIVE encode_masked_text(_, _)
encode_masked_text(text, fHigh) ==
  IF text = <<>> THEN <<TRUE, <<>>>>
  ELSE LET encoded == IF fHigh = 1 THEN utf16le_char(Head(text))
                      ELSE IF Head(text) < 256 THEN <<Head(text)>> ELSE <<>>
           rest == encode_masked_text(Tail(text), fHigh)
       IN  IF Len(encoded) # (IF fHigh = 1 THEN 2 ELSE 1) \/ ~rest[1]
             THEN <<FALSE, <<>>>>
             ELSE <<TRUE, encoded \o rest[2]>>

\* for i, pos in enumerate(x.byte_positions): wb[pos] = raw[i]
xls_patch(buf, byte_positions, raw) ==
  [i \in DOMAIN buf |->
     IF \E k \in DOMAIN byte_positions : byte_positions[k] = i - 1
       THEN raw[CHOOSE k \in DOMAIN byte_positions : byte_positions[k] = i - 1]
       ELSE buf[i]]

\* the for x in xlucs_list loop of redact: <<ok, wb>>
RECURSIVE xls_strings(_, _)
xls_strings(buf, list) ==
  IF list = <<>> THEN <<TRUE, buf>>
  ELSE CHOOSE res \in
         {IF ~raw[1] \/ Len(raw[2]) # Len(Head(list).byte_positions)
            THEN <<FALSE, buf>>
            ELSE xls_strings(xls_patch(buf, Head(list).byte_positions, raw[2]),
                             Tail(list)) :
            raw \in {encode_masked_text(redact_xlucs(Head(list).text),
                                        Head(list).fHigh)}} : TRUE

\* redact_hdr_fdr: parse_xlus(payload) is called without its parameter off,
\* which is a TypeError at the first HEADER or FOOTER record: <<ok, wb>>
RECURSIVE redact_hdr_fdr(_, _)
redact_hdr_fdr(buf, off) ==
  IF ~(off + 4 <= Len(buf)) THEN <<TRUE, buf>>
  ELSE IF le16(buf, off) \in {HEADER, FOOTER} THEN <<FALSE, buf>>
  ELSE redact_hdr_fdr(buf, off + 4 + le16(buf, off + 2))

\* the compound file, reduced to its signature bytes and the Workbook stream
\* stored in one run after them
XlsHead == <<208, 207>>
XlsFile(buf) == XlsHead \o buf

\* overlay_workbook_stream: <<ok, file>>
overlay_workbook_stream(file, orig_wb, new_wb) ==
  IF find(file, orig_wb, 0) = -1 THEN <<TRUE, file>>
  ELSE IF Len(orig_wb) # Len(new_wb) THEN <<FALSE, <<>>>>
  ELSE <<TRUE, SliceAssign(file, find(file, orig_wb, 0),
                           find(file, orig_wb, 0) + Len(orig_wb), new_wb)>>

\* redact once the SST strings are patched: <<st, file>>
xls_redact_tail(file, orig_wb, patched) ==
  IF ~patched[1] THEN <<"raised", <<>>>>
  ELSE CHOOSE res \in
         {IF ~hf[1] THEN <<"raised", <<>>>>
          ELSE CHOOSE res2 \in
                 {IF ~ov[1] THEN <<"raised", <<>>>> ELSE <<"returned", ov[2]>> :
                    ov \in {overlay_workbook_stream(file, orig_wb, hf[2])}} : TRUE :
            hf \in {redact_hdr_fdr(patched[2], 0)}} : TRUE

\* redact(file_bytes) of xls_module: <<st, file>>
xls_redact(file, orig_wb) ==
  IF get_sst_blocks(orig_wb, 0, FALSE, <<>>) = <<>> THEN <<"returned", file>>
  ELSE CHOOSE res \in
         {IF p[1] = "raise" THEN <<"raised", <<>>>>
          ELSE xls_redact_tail(file, orig_wb, xls_strings(orig_wb, p[2])) :
            p \in {SSTParser_parse(get_sst_blocks(orig_wb, 0, FALSE, <<>>))}} :
         TRUE

Call_SSTParser_parse ==
  /\ xs_pc = "start" /\ xs_fn = "parse"
  /\ get_sst_blocks(xs_wb, 0, FALSE, <<>>) # <<>>
  /\ \E p \in {SSTParser_parse(get_sst_blocks(xs_wb, 0, FALSE, <<>>))} :
       /\ xs_list' = p[2]
       /\ xs_pc' = IF p[1] = "raise" THEN "raised" ELSE "returned"
  /\ UNCHANGED <<xs_wb, xs_fn, xs_out, notXls>>

Call_xls_redact ==
  /\ xs_pc = "start" /\ xs_fn = "redact"
  /\ \E r \in {xls_redact(XlsFile(xs_wb), xs_wb)} :
       /\ xs_out' = r[2]
       /\ xs_pc' = r[1]
  /\ UNCHANGED <<xs_wb, xs_fn, xs_list, notXls>>

\* an XLUnicodeString: cch, flags, the characters
XlsString(cch, high, ch) ==
  <<cch, 0, IF high THEN 1 ELSE 0>>
    \o (IF high THEN [i \in 1..(2 * cch) |-> IF i % 2 = 1 THEN ch ELSE 0]
                ELSE [i \in 1..cch |-> ch])

\* a Workbook stream: an SST of one or two strings, cut anywhere after its
\* first byte into the SST record and a CONTINUE record that may begin with a
\* flags byte, then possibly a HEADER or FOOTER record, then EOF
InitXls ==
  /\ IdleButXls
  /\ \E cch \in 0..MaxXlsCch, flags \in UcsFlags, ch \in {65, 57},
        more \in BOOLEAN, c \in {"none", "bare", "low", "high"},
        hf \in {0, HEADER, FOOTER}, hhigh \in BOOLEAN :
       LET body == <<1, 0, 0, 0, 1, 0, 0, 0>> \o UcsString(cch, flags, ch)
                     \o (IF more THEN UcsString(1, 0, 57) ELSE <<>>)
       IN  \E n1 \in (IF c = "none" THEN {Len(body)} ELSE 1..Len(body)) :
             xs_wb = XlRecord(SST, SubSeq(body, 1, n1))
                       \o (IF c = "none" THEN <<>>
                           ELSE XlRecord(CONTINUE,
                                         (IF c = "bare" THEN <<>>
                                          ELSE IF c = "low" THEN <<0>>
                                          ELSE <<1>>)
                                           \o SubSeq(body, n1 + 1, Len(body))))
                       \o (IF hf = 0 THEN <<>>
                           ELSE XlRecord(hf, XlsString(2, hhigh, 57)))
                       \o XlRecord(10, <<>>)
  /\ xs_fn \in {"parse", "redact"}
  /\ xs_list = <<>> /\ xs_out = <<>>
  /\ xs_pc = "start"

NextXls ==
  \/ Call_SSTParser_parse
  \/ Call_xls_redact

SpecXls == InitXls /\ [][NextXls]_vars


\* the offsets of the HEADER and FOOTER records of the Workbook stream
XlsHdrFdr ==
  {off \in {iter_biff_records(xs_wb, 0)[k] : k \in DOMAIN iter_biff_records(xs_wb, 0)} :
     le16(xs_wb, off) \in {HEADER, FOOTER}}

\* C26: on a Workbook stream with HEADER or FOOTER records redact returns, the
\* file keeps its length, and every sensitive character of a header or footer
\* string is masked in place at record offset + 4 + 3.
C26_HeaderFooterRedacted ==
  (xs_fn = "redact" /\ xs_pc \in {"returned", "raised"} /\ XlsHdrFdr # {}) =>
    /\ xs_pc = "returned"
    /\ Len(xs_out) = Len(XlsFile(xs_wb))
    /\ \A off \in XlsHdrFdr :
         \A j \in 0..(le16(xs_wb, off + 4) - 1) :
           LET cs == IF xs_wb[off + 7] % 2 = 1 THEN 2 ELSE 1
               at == off + 4 + 3 + j * cs
           IN  xs_wb[at + 1] = 57 => xs_out[Len(XlsHead) + at + 1] = STAR

\* C29: every string SSTParser.parse returns has one byte position per byte
\* of its cch characters, the positions increase strictly, and each one is a
\* payload byte of the SST record or of a CONTINUE record, never a byte of a
\* record header and never the first byte of a CONTINUE payload.
C29_BytePositions ==
  (xs_fn = "parse" /\ xs_pc = "returned") =>
    \A n \in DOMAIN xs_list :
      LET x == xs_list[n]
          bp == x.byte_positions
      IN  /\ Len(bp) = x.cch * (IF x.fHigh = 1 THEN 2 ELSE 1)
          /\ \A k \in 1..(Len(bp) - 1) : bp[k] < bp[k + 1]
          /\ \A k \in DOMAIN bp :
               \E r \in DOMAIN iter_biff_records(xs_wb, 0) :
                 LET off == iter_biff_records(xs_wb, 0)[r]
                 IN  /\ le16(xs_wb, off) \in {SST, CONTINUE}
                     /\ off + 4 <= bp[k]
                     /\ bp[k] < off + 4 + le16(xs_wb, off + 2)
                     /\ bp[k] < Len(xs_wb)
                     /\ le16(xs_wb, off) = CONTINUE => bp[k] # off + 4

\* a string whose characters lie on both sides of a record boundary
C29_Witness ==
  /\ xs_fn = "parse" /\ xs_pc = "returned"
  /\ \E n \in DOMAIN xs_list :
       \E k \in 1..(Len(xs_list[n].byte_positions) - 1) :
         xs_list[n].byte_positions[k + 1] > xs_list[n].byte_positions[k] + 1

\* ----------------------------------------------- core/utils: directory entry

\* most directory ids of the scanned files
MaxDirEntries == 4

\* the first entry of ole.direntries whose name is tail, None when there is none
find_direntry_tail(direntries, tail) ==
  IF \E k \in DOMAIN direntries : direntries[k][1] /\ direntries[k][2].name = tail
    THEN direntries[CHOOSE k \in DOMAIN direntries :
                      /\ direntries[k][1] /\ direntries[k][2].name = tail
                      /\ \A j \in 1..(k - 1) :
                           ~(direntries[j][1] /\ direntries[j][2].name = tail)]
    ELSE None

\* tail = name.split("/")[-1]; entry = find_direntry_tail(ole, tail)
Call_find_direntry_tail ==
  /\ fd_pc = "start"
  /\ fd_entry' = find_direntry_tail(fd_direntries, fd_name[Len(fd_name)])
  /\ fd_pc' = "returned"
  /\ UNCHANGED <<fd_direntries, fd_name, notDir>>

\* the streams of a directory: one entry per path, the storage it is in, its
\* name and its start sector, which is its own
DirPaths ==
  {<<st, nm>> : st \in {"BodyText", "ViewText", "BinData"},
                nm \in {"Section0", "Section1"}}

\* the orchestrator processes each BodyText stream of the directory
InitDir ==
  /\ IdleButDir
  /\ \E paths \in SeqsUpTo(DirPaths \cup {<<>>}, MaxDirEntries) :
       /\ \A i, j \in DOMAIN paths :
            (i # j /\ paths[i] # <<>>) => paths[i] # paths[j]
       /\ fd_direntries =
            [k \in DOMAIN paths |->
               IF paths[k] = <<>> THEN None
               ELSE Some([storage |-> paths[k][1], name |-> paths[k][2],
                          isectStart |-> k])]
       /\ \E k \in DOMAIN paths :
            /\ paths[k] # <<>> /\ paths[k][1] = "BodyText"
            /\ fd_name = paths[k]
  /\ fd_entry = <<>>
  /\ fd_pc = "start"

NextDir == Call_find_direntry_tail

SpecDir == InitDir /\ [][NextDir]_vars

\* C27: the entry find_direntry_tail returns for a stream the orchestrator
\* processes is the directory entry of that stream, also when another storage
\* holds a stream of the same name.
C27_EntryOfTheSamePath ==
  fd_pc = "returned" =>
    /\ fd_entry[1]
    /\ <<fd_entry[2].storage, fd_entry[2].name>> = fd_name

\* ------------------------------------------- chart_replacer: process_bindata

\* sector size of the embedded compound files
BinSector == 2
\* sectors of an embedded compound file
MaxBinSectors == 3
\* most characters of a compressed chart text
MaxBinChars == 2

CFB == <<208, 207, 17, 224, 161, 177, 26, 225>>
PNG == <<137, 80, 78, 71, 13, 10, 26, 10>>
GZ == <<31, 139>>
JPG == <<255, 216, 255>>
WMF == <<215, 205, 198, 154>>

\* bytes.startswith
startswith(b, sig) == Slice(b, 0, Len(sig)) = sig

\* magic_hits: the (kind, offset) pairs, in order
magic_hits(raw) ==
  (IF startswith(raw, CFB) THEN <<<<"ole", 0>>>> ELSE <<>>)
    \o (IF startswith(raw, PNG) THEN <<<<"png", 0>>>> ELSE <<>>)
    \o (IF startswith(raw, GZ) THEN <<<<"gzip", 0>>>> ELSE <<>>)
    \o (IF startswith(raw, JPG) THEN <<<<"jpeg", 0>>>> ELSE <<>>)
    \o (IF startswith(raw, WMF) THEN <<<<"wmf", 0>>>> ELSE <<>>)
    \o (IF find(raw, CFB, 1) # -1 THEN <<<<"ole", find(raw, CFB, 1)>>>> ELSE <<>>)
    \o (IF find(raw, PNG, 1) # -1 THEN <<<<"png", find(raw, PNG, 1)>>>> ELSE <<>>)
    \o (IF find(raw, GZ, 1) # -1 THEN <<<<"gzip", find(raw, GZ, 1)>>>> ELSE <<>>)

is_zlib_head(b) == Len(b) >= 2 /\ b[1] = 120 /\ b[2] \in {1, 156, 218}

\* the first loop of scan_deflate, from offset i on
RECURSIVE scan_heads(_, _)
scan_heads(raw, i) ==
  IF ~(i < Len(raw) - 1) THEN <<>>
  ELSE (IF is_zlib_head(Slice(raw, i, i + 2)) THEN <<<<"zlib", i>>>> ELSE <<>>)
         \o (IF Slice(raw, i, i + 2) = GZ THEN <<<<"gzip", i>>>> ELSE <<>>)
         \o scan_heads(raw, i + 1)

\* scan_deflate(raw, limit, step): the candidates are distinct as built
scan_deflate(raw, limit, step) ==
  Slice(scan_heads(raw, 0)
          \o [k \in 1..((Len(raw) + step - 1) \div step) |->
                <<"rawdef", (k - 1) * step>>],
        0, limit)

\* zlib.adler32 of d, as the four big-endian bytes that end a zlib stream
RECURSIVE adler_sums(_, _, _)
adler_sums(d, s1, s2) ==
  IF d = <<>> THEN <<s1, s2>>
  ELSE adler_sums(Tail(d), (s1 + Head(d)) % 65521,
                  (s2 + ((s1 + Head(d)) % 65521)) % 65521)

adler32(d) ==
  <<adler_sums(d, 1, 0)[2] \div 256, adler_sums(d, 1, 0)[2] % 256,
    adler_sums(d, 1, 0)[1] \div 256, adler_sums(d, 1, 0)[1] % 256>>

\* decompressobj(-15).decompress(data) from token position q: <<st, q, dec>>,
\* st = "end" after the end token, "more" when the data stop before it (no
\* exception: the bytes decoded so far are returned), "error" for zlib.error
RECURSIVE inflate_obj(_, _, _)
inflate_obj(data, q, out) ==
  IF q >= Len(data) THEN <<"more", Len(data), out>>
  ELSE IF data[q + 1] = 0 THEN <<"end", q + 1, out>>
  ELSE IF data[q + 1] = 1
    THEN IF q + 2 <= Len(data)
           THEN inflate_obj(data, q + 2, Append(out, data[q + 2]))
           ELSE <<"more", Len(data), out>>
  ELSE IF data[q + 1] = 2
    THEN IF q + 3 > Len(data) THEN <<"more", Len(data), out>>
         ELSE IF data[q + 2] >= 3 /\ data[q + 3] >= 1 /\ data[q + 3] <= Len(out)
           THEN inflate_obj(data, q + 3, lz_copy(out, data[q + 3], data[q + 2]))
         ELSE <<"error", q, out>>
  ELSE <<"error", q, out>>

\* decomp_at for the kinds that can be written back: <<ok, dec, consumed>>,
\* ok = FALSE is None
decomp_at(raw, off, kind) ==
  CHOOSE res \in
    {IF r[1] = "error" THEN <<FALSE, <<>>, 0>>
     ELSE IF kind = "zlib" /\ r[1] = "end" /\ r[2] + 4 <= Len(raw) - off
              /\ Slice(raw, off + r[2], off + r[2] + 4) # adler32(r[3])
       THEN <<FALSE, <<>>, 0>>
     ELSE CHOOSE res2 \in
       {IF consumed <= 0 \/ Len(r[3]) = 0 THEN <<FALSE, <<>>, 0>>
        ELSE <<TRUE, r[3], consumed>> :
          consumed \in {IF kind = "zlib" /\ r[1] = "end"
                          THEN Min(r[2] + 4, Len(raw) - off)
                          ELSE r[2]}} : TRUE :
       r \in {inflate_obj(Slice(raw, off, Len(raw)),
                          IF kind = "zlib" THEN 2 ELSE 0, <<>>)}} : TRUE

\* recompress for "zlib" and "rawdef"
recompress(kind, dec) ==
  IF kind = "zlib" THEN <<120, 156>> \o deflate(dec) \o adler32(dec)
  ELSE deflate(dec)

\* patch_seg: <<ok, bytes>>, ok = FALSE is None
patch_seg(raw, off, consumed, new_comp) ==
  IF Len(new_comp) > Len(Slice(raw, off, off + consumed)) THEN <<FALSE, <<>>>>
  ELSE <<TRUE,
         Slice(raw, 0, off) \o new_comp
           \o Repeat(0, Len(Slice(raw, off, off + consumed)) - Len(new_comp))
           \o Slice(raw, off + Len(Slice(raw, off, off + consumed)), Len(raw))>>

\* inner.openstream(s).read(): the sectors of the chain, one after the other;
\* sector k of the compound file at offset o of raw starts at
\* o + len(CFB) + k * BinSector
RECURSIVE bin_openstream(_, _, _)
bin_openstream(raw, o, chain) ==
  IF chain = <<>> THEN <<>>
  ELSE Slice(raw, o + Len(CFB) + Head(chain) * BinSector,
             o + Len(CFB) + (Head(chain) + 1) * BinSector)
         \o bin_openstream(raw, o, Tail(chain))

\* bytes.replace(blob, rep, 1) for a blob that is not empty
replace_first(cur, blob, rep) ==
  IF find(cur, blob, 0) = -1 THEN cur
  ELSE Slice(cur, 0, find(cur, blob, 0)) \o rep
         \o Slice(cur, find(cur, blob, 0) + Len(blob), Len(cur))

\* the for s in names loop: <<cur, hits>>
RECURSIVE bin_names(_, _, _, _, _, _)
bin_names(raw, o, chains, old, cur, hits) ==
  IF chains = <<>> THEN <<cur, hits>>
  ELSE CHOOSE res \in
         {IF t[3] > 0
            THEN bin_names(raw, o, Tail(chains), old,
                           replace_first(cur, bin_openstream(raw, o, Head(chains)),
                                         t[2]),
                           hits + t[3])
            ELSE bin_names(raw, o, Tail(chains), old, cur, hits) :
            t \in {try_patterns(bin_openstream(raw, o, Head(chains)), old)}} :
         TRUE

\* the for k, o in mags loop: <<returned, cur, hits>>; OleFileIO raises where
\* no compound file starts
RECURSIVE bin_mags(_, _, _, _, _)
bin_mags(raw, ole, mags, old, hits) ==
  IF mags = <<>> THEN <<FALSE, raw, hits>>
  ELSE IF Head(mags)[1] = "ole" /\ ole[1] /\ ole[2].off = Head(mags)[2]
    THEN CHOOSE res \in
           {IF r[2] > 0 THEN <<TRUE, r[1], r[2]>>
            ELSE bin_mags(raw, ole, Tail(mags), old, r[2]) :
              r \in {bin_names(raw, Head(mags)[2], ole[2].chains, old, raw,
                               hits)}} : TRUE
  ELSE bin_mags(raw, ole, Tail(mags), old, hits)

\* the for kind, off in scan_deflate(raw) loop: <<returned, new_raw, hits>>; a
\* gzip candidate never returns (not r, cnt == 0 and kind == "gzip" continue)
RECURSIVE bin_deflate(_, _, _, _)
bin_deflate(raw, cands, old, hits) ==
  IF cands = <<>> THEN <<FALSE, raw, hits>>
  ELSE IF Head(cands)[1] = "gzip" THEN bin_deflate(raw, Tail(cands), old, hits)
  ELSE CHOOSE res \in
    {IF ~r[1] THEN bin_deflate(raw, Tail(cands), old, hits)
     ELSE CHOOSE res2 \in
       {IF t[3] = 0 THEN bin_deflate(raw, Tail(cands), old, hits)
        ELSE CHOOSE res3 \in
          {IF ~n[1] THEN bin_deflate(raw, Tail(cands), old, hits)
           ELSE <<TRUE, n[2], hits + t[3]>> :
             n \in {patch_seg(raw, Head(cands)[2], r[3],
                              recompress(Head(cands)[1], t[2]))}} : TRUE :
          t \in {try_patterns(r[2], old)}} : TRUE :
       r \in {decomp_at(raw, Head(cands)[2], Head(cands)[1])}} : TRUE

\* process_bindata from the deflate scan on: <<out, hits>>
bin_after_ole(raw, old, hits) ==
  CHOOSE res \in
    {IF d[1] THEN <<d[2], d[3]>>
     ELSE CHOOSE res2 \in
       {IF t[3] > 0 THEN <<t[2], t[3]>> ELSE <<raw, 0>> :
          t \in {try_patterns(raw, old)}} : TRUE :
       d \in {bin_deflate(raw, scan_deflate(raw, 64, 64), old, hits)}} : TRUE

\* process_bindata(raw, chart_old): <<out, hits>>
process_bindata(raw, ole, old) ==
  IF \E k \in DOMAIN magic_hits(raw) :
       magic_hits(raw)[k][1] \in {"png", "jpeg", "wmf"} /\ magic_hits(raw)[k][2] = 0
    THEN <<raw, 0>>
  ELSE CHOOSE res \in
         {IF m[1] THEN <<m[2], m[3]>> ELSE bin_after_ole(raw, old, m[3]) :
            m \in {bin_mags(raw, ole, magic_hits(raw), old, 0)}} : TRUE

Call_process_bindata ==
  /\ pbd_pc = "start"
  /\ \E r \in {process_bindata(pbd_raw, pbd_ole, pbd_old)} :
       /\ pbd_out' = r[1]
       /\ pbd_hits' = r[2]
  /\ pbd_pc' = "returned"
  /\ UNCHANGED <<pbd_raw, pbd_ole, pbd_old, notBin>>

\* the sector chains of the streams of an embedded compound file: one or two
\* streams of one or two sectors, no sector in two chains
BinChains ==
  LET one == {c \in SeqsUpTo(0..(MaxBinSectors - 1), 2) :
                c # <<>> /\ (Len(c) = 2 => c[1] # c[2])}
  IN  {<<c>> : c \in one}
        \cup {<<c, d>> : c \in one, d \in {x \in one : Len(x) = 1}}

\* raw is an embedded compound file (after an optional prefix byte) whose
\* sectors hold one UTF-16LE character each, or a chart text stored plain,
\* as raw deflate or as a zlib stream, after an optional prefix
InitBin ==
  /\ IdleButBin
  /\ \/ \E pre \in {<<>>, <<7>>}, chains \in BinChains,
           chars \in [1..MaxBinSectors -> {65, 66, 67}] :
          /\ \A i, j \in DOMAIN chains :
               i # j => \A a \in DOMAIN chains[i], b \in DOMAIN chains[j] :
                          chains[i][a] # chains[j][b]
          /\ pbd_raw = pre \o CFB
                         \o Flatten([k \in 1..MaxBinSectors |-> <<chars[k], 0>>])
          /\ pbd_ole = Some([off |-> Len(pre), chains |-> chains])
     \/ \E pre \in {<<>>, <<7>>, PNG}, post \in {<<>>, <<0>>},
           kind \in {"plain", "rawdef", "zlib"},
           text \in SeqsUpTo({65, 66}, MaxBinChars) :
          /\ pbd_raw = pre
                         \o (IF kind = "plain" THEN encode(text, "utf-16le")[2]
                             ELSE recompress(kind, encode(text, "utf-16le")[2]))
                         \o post
          /\ pbd_ole = None
  /\ pbd_old \in {<<65>>, <<65, 66>>}
  /\ pbd_out = <<>> /\ pbd_hits = 0
  /\ pbd_pc = "start"

NextBin == Call_process_bindata

SpecBin == InitBin /\ [][NextBin]_vars

\* C28: whenever process_bindata reports hits, the bytes it returns differ
\* from raw and every stream of an embedded compound file in which the text
\* was counted reads masked from the returned bytes, whether the stream is
\* stored in one run or not; the returned bytes have the length of raw.
C28_HitImpliesMask ==
  pbd_pc = "returned" =>
    /\ Len(pbd_out) = Len(pbd_raw)
    /\ pbd_hits > 0 =>
         /\ pbd_out # pbd_raw
         /\ pbd_ole[1] =>
              \A k \in DOMAIN pbd_ole[2].chains :
                LET blob == bin_openstream(pbd_raw, pbd_ole[2].off,
                                           pbd_ole[2].chains[k])
                IN  try_patterns(blob, pbd_old)[3] > 0 =>
                      bin_openstream(pbd_out, pbd_ole[2].off,
                                     pbd_ole[2].chains[k])
                        = try_patterns(blob, pbd_old)[2]


\* --------------------- redact_ole_bin_preserve_size (server/modules)
\* The function works on container = bytearray(bin_bytes) and opens the OLE
\* file on base = memoryview(container)[prefix_off:]; the overwrite functions
\* receive base.obj, which is the whole bytearray, prefix included. Its
\* overwrite_bigfat and overwrite_minifat_chain have the loops of the CLI
\* copies (overwrite_bigfat_hop .. overwrite_minifat_exit); the walk of
\* big_sector_from_minioffset cannot fail here (ModulesWrote).

\* bin_bytes.find(signature): the offset of the CFBF signature, -1 without
\* one; the signature is the first sector of an unmodified container
CFBF_find(b) ==
  IF \E i \in 0..Len(b) : Slice(b, i, i + SectorSize) = OrigBytes(SectorSize)
    THEN CHOOSE i \in 0..Len(b) :
           /\ Slice(b, i, i + SectorSize) = OrigBytes(SectorSize)
           /\ \A j \in 0..(i - 1) :
                Slice(b, j, j + SectorSize) # OrigBytes(SectorSize)
    ELSE -1

\* redact_ole_bin_preserve_size up to the overwrite call (A): open the stream
\* on base, mask it, take the start sector of its directory entry. A stream
\* that cannot be opened is skipped. After a successful openstream the
\* overwrite writes at least one chunk, so the brute-force steps (B)-(D),
\* which need wrote <= 0, are not entered.
modules_process_stream ==
  /\ UNCHANGED <<maskvars, hwpvars, biffvars, latervars>>
  /\ pc = "start"
  /\ impl = "modules"
  /\ IF CFBF_find(bin_bytes) < 0
       THEN /\ pc' = "returned"
            /\ result' = bin_bytes
            /\ UNCHANGED olewalk
     ELSE IF ~openstream(Slice(container, CFBF_find(bin_bytes),
                               Len(container)), de)[1]
       THEN /\ pc' = "returned"
            /\ result' = container
            /\ UNCHANGED olewalk
     ELSE /\ new_raw' = MaskStream(openstream(Slice(container,
                                     CFBF_find(bin_bytes), Len(container)),
                                     de)[2])
          /\ s' = de.start
          /\ start_sector' = de.start
          /\ tbl' = IF de.size < MiniCutoff THEN "MiniFAT" ELSE "FAT"
          /\ pos' = 0
          /\ w' = 0
          /\ before' = container
          /\ visited' = <<>>
          /\ pc' = IF de.size >= MiniCutoff THEN "bigfat"
                   ELSE IF root.present THEN "minifat" ELSE "done"
          /\ UNCHANGED result
  /\ UNCHANGED <<oleconf, container, ole_fat_global>>

\* return bytes(container)
modules_return ==
  /\ UNCHANGED <<maskvars, hwpvars, biffvars, latervars>>
  /\ pc = "done"
  /\ impl = "modules"
  /\ result' = container
  /\ pc' = "returned"
  /\ UNCHANGED <<oleconf, olewalk, container, ole_fat_global>>

\* bin_bytes with 0..MaxPrefix bytes in front of the CFBF signature, handed
\* to either implementation of redact_ole_bin_preserve_size
InitPrefix ==
  /\ MaskIdle
  /\ HwpIdle
  /\ BiffIdle
  /\ LaterIdle
  /\ impl \in {"modules", "xml"}
  /\ stream_kind = "chart"
  /\ fat \in SeqsUpTo(FatValues, MaxSectors)
  /\ \E n \in ContainerLens, p \in 0..MaxPrefix :
       /\ n > SectorSize
       /\ Len(fat) <= nb_sect(n)
       /\ bin_bytes = PrefixBytes(p) \o OrigBytes(n)
       /\ container = IF impl = "modules" THEN bin_bytes ELSE OrigBytes(n)
  /\ de \in [start : FatValues, size : 1..MaxRaw]
  /\ de_attrs = TRUE
  /\ minifat \in IF de.size >= MiniCutoff THEN {<<>>}
                 ELSE SeqsUpTo(FatValues, MaxMiniFat)
  /\ root \in IF de.size >= MiniCutoff
                THEN {[present |-> TRUE, isectStart |-> ENDOFCHAIN]}
                ELSE [present : BOOLEAN, isectStart : FatValues]
  /\ ~root.present => root.isectStart = ENDOFCHAIN
  /\ ole_fat_global = <<>>
  /\ pc = "start"
  /\ s = 0
  /\ pos = 0
  /\ new_raw = <<>>
  /\ w = 0
  /\ before = <<>>
  /\ visited = <<>>
  /\ tbl = "none"
  /\ start_sector = 0
  /\ result = <<>>

NextPrefix ==
  \/ modules_process_stream
  \/ modules_return
  \/ overwrite_bigfat_hop
  \/ overwrite_bigfat_exit
  \/ overwrite_minifat_hop
  \/ overwrite_minifat_exit
  \/ xml_process_stream
  \/ xml_return

SpecPrefix == InitPrefix /\ [][NextPrefix]_vars

\* after a successful openstream the overwrite of server/modules writes a
\* chunk, and its MiniFAT walk finds the big sector of every mini sector
ModulesWrote ==
  impl = "modules" =>
    /\ pc = "done" => w >= 1
    /\ (pc = "minifat" /\ LoopCond)
         => big_sector_from_minioffset(root.isectStart, s * MiniSectorSize)[1]

\* C30: when the CFBF signature starts at offset p of bin_bytes, the result
\* of redact_ole_bin_preserve_size keeps the p prefix bytes and the CFBF
\* header, and the chunk written for sector s of the stream lies at
\* p + (s+1)*sectorSize (plus the offset within the big sector for a mini
\* sector), in both implementations; a sector the chain visits twice holds
\* the chunk of its last visit
C30_PrefixRebased ==
  (pc = "returned" /\ new_raw # <<>>) =>
    LET p == CFBF_find(bin_bytes)
        unit == IF tbl = "FAT" THEN SectorSize ELSE MiniSectorSize
        chunk(k) == Slice(new_raw, (k - 1) * unit, k * unit)
        mini(k) == big_sector_from_minioffset(root.isectStart,
                                              visited[k] * MiniSectorSize)
        file_off(k) == IF tbl = "FAT" THEN SectorOffset(visited[k])
                       ELSE SectorOffset(mini(k)[2]) + mini(k)[3]
    IN  /\ Slice(result, 0, p + SectorSize)
             = Slice(bin_bytes, 0, p + SectorSize)
        /\ \A k \in 1..Len(visited) :
             (\A j \in (k + 1)..Len(visited) : visited[j] # visited[k])
               => Slice(result, p + file_off(k),
                        p + file_off(k) + Len(chunk(k))) = chunk(k)

====
